---- MODULE Spec2Model ----
(***************************************************************************)
(* FitRate: the service layer (rating-service, profile-service,            *)
(* photo-service) as a state machine over the backing tables.  Every       *)
(* service function is a sequence of store requests; each request is one   *)
(* atomic step at the store and requests of different sessions interleave. *)
(***************************************************************************)
EXTENDS Integers, Sequences, FiniteSets, TLC

\* ------------------------------------------------------------------ bounds
MaxCalls == 2          \* service calls invoked in one behaviour
MaxLen == 2            \* longest comment text

Sessions == {"s1", "s2"}            \* browser sessions issuing calls
Users == {"u1", "u2"}               \* profile ids
Photos == {"p1"}                    \* photo ids
RatingValues == {0, 7, 9}           \* values a caller may pass to ratePhoto
Chars == {" ", "a"}                 \* characters of a comment text
Whitespace == {" "}                 \* characters String.prototype.trim strips
NotifKinds == {"like", "comment", "follow", "rating"}   \* Notification.type

Contents == UNION {[1..n -> Chars] : n \in 0..MaxLen}

VARIABLES
  ratings,     \* table ratings: rows [id, user_id, photo_id, rating]
  followers,   \* table followers: rows [id, follower_id, followed_id]
  comments,    \* table comments: rows [id, user_id, photo_id, content]
  photos,      \* table photos: photo id -> row
  profiles,    \* table profiles: user id -> row
  call,        \* per session: the service call it is running or ran last
  nextId,      \* next value crypto.randomUUID() hands out
  ncalls,      \* number of calls invoked so far
  latest,      \* history: <<user, photo>> -> value of the last saved rating
  likes,       \* table likes: rows [id, user_id, photo_id]
  notifications, \* table notifications: rows [id, user_id, sender_id, type, is_read]
  files,       \* storage bucket 'images': the photo ids whose file is stored
  page,        \* the photo detail page of session PageSession
  gallery,     \* GalleryContent: the feed with its rate and like buttons
  card,        \* PhotoCard: currentRating, currentLikes, isLiked
  auth,        \* AuthProvider: user, loading, pathname
  feed,        \* GalleryPage: photos, sortBy and the requests in flight
  popover      \* NotificationsPopover: notifications, unreadCount, open

uiVars == <<gallery, card, auth, feed, popover>>

vars == <<ratings, followers, comments, photos, profiles, call, nextId,
          ncalls, latest, likes, notifications, files, page, uiVars>>

\* ------------------------------------------------------------ pure helpers
RECURSIVE DropLeading(_)
DropLeading(s) ==
  IF s # <<>> /\ Head(s) \in Whitespace THEN DropLeading(Tail(s)) ELSE s

RECURSIVE DropTrailing(_)
DropTrailing(s) ==
  IF s # <<>> /\ s[Len(s)] \in Whitespace
    THEN DropTrailing(SubSeq(s, 1, Len(s) - 1))
    ELSE s

\* content.trim()
Trim(s) == DropTrailing(DropLeading(s))

RECURSIVE SumOver(_, _)
SumOver(f, S) ==
  IF S = {} THEN 0
  ELSE LET x == CHOOSE y \in S : TRUE IN f[x] + SumOver(f, S \ {x})

\* ------------------------------------------------------------ call records
PrevNone == [op |-> "none", uid |-> "", tgt |-> "", success |-> FALSE,
             failed |-> FALSE, rating |-> 0, content |-> <<>>]

IdleCall ==
  [op |-> "none", pc |-> "idle", uid |-> "", tgt |-> "", cid |-> 0,
   rating |-> 0, content |-> <<>>, existing |-> {}, success |-> FALSE,
   error |-> "none", failed |-> FALSE, affected |-> {}, prev |-> PrevNone,
   kind |-> "", value |-> {}]

Summary(c) == [op |-> c.op, uid |-> c.uid, tgt |-> c.tgt,
               success |-> c.success, failed |-> c.failed,
               rating |-> c.rating, content |-> c.content]

\* a session may invoke a call when it is not in the middle of one
CanInvoke(s) == call[s].pc \in {"idle", "done"} /\ ncalls < MaxCalls

NewCall(s, op, pc) ==
  [IdleCall EXCEPT !.op = op, !.pc = pc, !.prev = Summary(call[s])]

\* return { success: true }
ReturnSuccess(c) == [c EXCEPT !.pc = "done", !.success = TRUE]

\* return { success: false, error }
ReturnFailure(c, e) ==
  [c EXCEPT !.pc = "done", !.success = FALSE, !.error = e]

\* the catch block after a store request came back with an error
StoreFailure(c) ==
  [c EXCEPT !.pc = "done", !.success = FALSE, !.error = "store_error",
            !.failed = TRUE]

\* PhotoRating's state (rating, hasRated, isRating), the votes_count of
\* PhotoDetailPage's photo, and where loadUserRating and handleRating stand
IdlePage ==
  [rating |-> {}, hasRated |-> FALSE, isRating |-> FALSE, votes_count |-> 0,
   load |-> "idle", loaded |-> {}, handle |-> "idle", oldRating |-> 0,
   hadStored |-> FALSE, delta |-> 0]

\* the photo ids the feed can show: Photos and the ones uploaded later
FeedPhotos == Photos \cup {"p2"}

\* GalleryContent before it has mounted
IdleGallery ==
  [photos |-> <<>>, hasMore |-> TRUE, page |-> 1, loading |-> FALSE,
   userRatings |-> [p \in FeedPhotos |-> {}],
   likedPosts |-> [p \in FeedPhotos |-> FALSE],
   load |-> "idle", loaded |-> [p \in FeedPhotos |-> {}],
   more |-> "idle", nextPage |-> 1, newPhotos |-> <<>>, moreAvailable |-> FALSE,
   handle |-> "idle", id |-> "", before |-> {}]

\* PhotoCard before it has mounted
IdleCard == [mounted |-> FALSE]

\* AuthProvider before it has mounted
IdleAuth ==
  [mounted |-> FALSE, user |-> "", loading |-> TRUE, pathname |-> <<>>,
   session |-> "", getUser |-> "idle", dirty |-> FALSE, push |-> <<>>,
   redirects |-> 0, from |-> <<>>]

\* GalleryPage before it has mounted
IdleFeed ==
  [mounted |-> FALSE, photos |-> <<>>, loading |-> TRUE, hasMore |-> TRUE,
   page |-> 1, sortBy |-> "recent", requests |-> <<>>, effect |-> FALSE,
   changed |-> FALSE, failed |-> FALSE]

\* NotificationsPopover before it has mounted
IdlePopover == [mounted |-> FALSE]

\* ---------------------------------------------------------------- Init
Init ==
  /\ ratings = {}
  /\ followers = {}
  /\ comments = {}
  /\ photos = [p \in Photos |->
                 [user_id |-> "u1", rating |-> 0, votes_count |-> 0,
                  likes_count |-> 0, comments_count |-> 0, created_at |-> 0]]
  /\ profiles = [u \in Users |-> [followers_count |-> 0, following_count |-> 0]]
  /\ call = [s \in Sessions |-> IdleCall]
  /\ nextId = 1
  /\ ncalls = 0
  /\ latest = <<>>
  /\ likes = {}
  /\ notifications = {}
  /\ files = Photos
  /\ page = IdlePage
  /\ gallery = IdleGallery
  /\ card = IdleCard
  /\ auth = IdleAuth
  /\ feed = IdleFeed
  /\ popover = IdlePopover

\* ---------------------------------------------------------- ratePhoto
ratePhoto_call(s, u, ph, v) ==
  /\ CanInvoke(s)
  /\ call' = [call EXCEPT ![s] =
                [NewCall(s, "ratePhoto", "check") EXCEPT
                   !.uid = u, !.tgt = ph, !.rating = v]]
  /\ ncalls' = ncalls + 1
  /\ UNCHANGED <<likes, notifications, files, page, uiVars, ratings, followers, comments, photos, profiles, nextId, latest>>

\* select ... .eq(user_id).eq(photo_id).maybeSingle(); checkError is thrown
ratePhoto_check(s, fail) ==
  LET c == call[s]
      found == {r \in ratings : r.user_id = c.uid /\ r.photo_id = c.tgt}
  IN /\ c.op = "ratePhoto" /\ c.pc = "check"
     /\ call' = [call EXCEPT ![s] =
                   IF fail \/ Cardinality(found) > 1
                     THEN StoreFailure(c)
                     ELSE [c EXCEPT !.pc = "save",
                                    !.existing = {r.id : r \in found}]]
     /\ UNCHANGED <<likes, notifications, files, page, uiVars, ratings, followers, comments, photos, profiles, nextId,
                    ncalls, latest>>

\* update(...).eq('id', existingRating.id)  or  insert({id: randomUUID(), ...})
ratePhoto_save(s, fail) ==
  LET c == call[s]
  IN /\ c.op = "ratePhoto" /\ c.pc = "save"
     /\ IF fail
          THEN /\ call' = [call EXCEPT ![s] = StoreFailure(c)]
               /\ UNCHANGED <<ratings, nextId, latest>>
          ELSE /\ IF c.existing # {}
                    THEN /\ ratings' =
                              {IF r.id \in c.existing
                                 THEN [r EXCEPT !.rating = c.rating] ELSE r
                               : r \in ratings}
                         /\ UNCHANGED nextId
                    ELSE /\ ratings' = ratings \cup
                              {[id |-> nextId, user_id |-> c.uid,
                                photo_id |-> c.tgt, rating |-> c.rating]}
                         /\ nextId' = nextId + 1
               /\ call' = [call EXCEPT ![s] = ReturnSuccess(c)]
               /\ latest' = (<<c.uid, c.tgt>> :> c.rating) @@ latest
     /\ UNCHANGED <<likes, notifications, files, page, uiVars, followers, comments, photos, profiles, ncalls>>

ratePhoto(s) ==
  \/ \E u \in Users, ph \in Photos, v \in RatingValues : ratePhoto_call(s, u, ph, v)
  \/ \E fail \in BOOLEAN : ratePhoto_check(s, fail)
  \/ \E fail \in BOOLEAN : ratePhoto_save(s, fail)

\* ---------------------------------------------------------- followUser
\* followUser_call with the self-follow test left out
followUser_call_NoSelfTest(s, a, b) ==
  /\ CanInvoke(s)
  /\ call' = [call EXCEPT ![s] =
                [NewCall(s, "followUser", "check") EXCEPT !.uid = a, !.tgt = b]]
  /\ ncalls' = ncalls + 1
  /\ UNCHANGED <<likes, notifications, files, page, uiVars, ratings, followers, comments, photos, profiles, nextId, latest>>

\* the synchronous prefix: "Don't follow yourself"
followUser_call(s, a, b) ==
  /\ CanInvoke(s)
  /\ LET c == [NewCall(s, "followUser", "check") EXCEPT !.uid = a, !.tgt = b]
     IN call' = [call EXCEPT ![s] =
                   IF a = b THEN ReturnFailure(c, "cannot_follow_self") ELSE c]
  /\ ncalls' = ncalls + 1
  /\ UNCHANGED <<likes, notifications, files, page, uiVars, ratings, followers, comments, photos, profiles, nextId, latest>>

\* const { data: existing } = select('id')...maybeSingle(): the error is not
\* read, so a failed request and a multi-row match both leave existing null
followUser_check(s, fail) ==
  LET c == call[s]
      found == {e \in followers :
                  e.follower_id = c.uid /\ e.followed_id = c.tgt}
      existing == IF fail \/ Cardinality(found) > 1
                    THEN {} ELSE {e.id : e \in found}
  IN /\ c.op = "followUser" /\ c.pc = "check"
     /\ call' = [call EXCEPT ![s] =
                   IF existing # {}
                     THEN ReturnSuccess([c EXCEPT !.existing = existing,
                                                  !.failed = fail])
                     ELSE [c EXCEPT !.pc = "insert", !.failed = fail]]
     /\ UNCHANGED <<likes, notifications, files, page, uiVars, ratings, followers, comments, photos, profiles, nextId,
                    ncalls, latest>>

\* followUser_insert awaiting a notification whose failure it lets escape
followUser_insert_NotifyThrows(s, fail) ==
  LET c == call[s]
  IN /\ c.op = "followUser" /\ c.pc = "insert"
     /\ IF fail
          THEN /\ call' = [call EXCEPT ![s] = StoreFailure(c)]
               /\ UNCHANGED <<followers, nextId>>
          ELSE /\ followers' = followers \cup
                    {[id |-> nextId, follower_id |-> c.uid,
                      followed_id |-> c.tgt]}
               /\ nextId' = nextId + 1
               /\ \E nfail \in BOOLEAN :
                    call' = [call EXCEPT ![s] =
                               IF nfail THEN StoreFailure(c)
                               ELSE ReturnSuccess([c EXCEPT !.affected = {nextId}])]
     /\ UNCHANGED <<likes, notifications, files, page, uiVars, ratings, comments, photos, profiles, ncalls, latest>>

\* insert({id: randomUUID(), follower_id, followed_id}); if (error) throw
followUser_insert(s, fail) ==
  LET c == call[s]
  IN /\ c.op = "followUser" /\ c.pc = "insert"
     /\ IF fail
          THEN /\ call' = [call EXCEPT ![s] = StoreFailure(c)]
               /\ UNCHANGED <<followers, nextId>>
          ELSE /\ followers' = followers \cup
                    {[id |-> nextId, follower_id |-> c.uid,
                      followed_id |-> c.tgt]}
               /\ nextId' = nextId + 1
               /\ call' = [call EXCEPT ![s] =
                             ReturnSuccess([c EXCEPT !.affected = {nextId}])]
     /\ UNCHANGED <<likes, notifications, files, page, uiVars, ratings, comments, photos, profiles, ncalls, latest>>

followUser(s) ==
  \/ \E a \in Users, b \in Users : followUser_call(s, a, b)
  \/ \E fail \in BOOLEAN : followUser_check(s, fail)
  \/ \E fail \in BOOLEAN : followUser_insert(s, fail)

\* -------------------------------------------------------- unfollowUser
unfollowUser_call(s, a, b) ==
  /\ CanInvoke(s)
  /\ call' = [call EXCEPT ![s] =
                [NewCall(s, "unfollowUser", "delete") EXCEPT
                   !.uid = a, !.tgt = b]]
  /\ ncalls' = ncalls + 1
  /\ UNCHANGED <<likes, notifications, files, page, uiVars, ratings, followers, comments, photos, profiles, nextId, latest>>

\* unfollowUser_delete with the followed_id filter left out
unfollowUser_delete_NoFollowedFilter(s, fail) ==
  LET c == call[s]
      found == {e \in followers : e.follower_id = c.uid}
  IN /\ c.op = "unfollowUser" /\ c.pc = "delete"
     /\ IF fail
          THEN /\ call' = [call EXCEPT ![s] = StoreFailure(c)]
               /\ UNCHANGED followers
          ELSE /\ followers' = followers \ found
               /\ call' = [call EXCEPT ![s] =
                             ReturnSuccess([c EXCEPT
                                !.affected = {e.id : e \in found}])]
     /\ UNCHANGED <<likes, notifications, files, page, uiVars, ratings, comments, photos, profiles, nextId, ncalls, latest>>

\* delete().eq('follower_id', followerId).eq('followed_id', followedId)
unfollowUser_delete(s, fail) ==
  LET c == call[s]
      found == {e \in followers :
                  e.follower_id = c.uid /\ e.followed_id = c.tgt}
  IN /\ c.op = "unfollowUser" /\ c.pc = "delete"
     /\ IF fail
          THEN /\ call' = [call EXCEPT ![s] = StoreFailure(c)]
               /\ UNCHANGED followers
          ELSE /\ followers' = followers \ found
               /\ call' = [call EXCEPT ![s] =
                             ReturnSuccess([c EXCEPT
                                !.affected = {e.id : e \in found}])]
     /\ UNCHANGED <<likes, notifications, files, page, uiVars, ratings, comments, photos, profiles, nextId, ncalls, latest>>

unfollowUser(s) ==
  \/ \E a \in Users, b \in Users : unfollowUser_call(s, a, b)
  \/ \E fail \in BOOLEAN : unfollowUser_delete(s, fail)

\* ----------------------------------------------------------- addComment
\* addComment_call testing the text without trimming it
addComment_call_NoTrim(s, u, ph, text) ==
  /\ CanInvoke(s)
  /\ LET c == [NewCall(s, "addComment", "insert") EXCEPT
                 !.uid = u, !.tgt = ph, !.content = text]
     IN call' = [call EXCEPT ![s] =
                   IF text = <<>>
                     THEN ReturnFailure(c, "comment_empty") ELSE c]
  /\ ncalls' = ncalls + 1
  /\ UNCHANGED <<likes, notifications, files, page, uiVars, ratings, followers, comments, photos, profiles, nextId, latest>>

\* the synchronous prefix: if (!content.trim()) return { success: false, ... }
addComment_call(s, u, ph, text) ==
  /\ CanInvoke(s)
  /\ LET c == [NewCall(s, "addComment", "insert") EXCEPT
                 !.uid = u, !.tgt = ph, !.content = text]
     IN call' = [call EXCEPT ![s] =
                   IF Trim(text) = <<>>
                     THEN ReturnFailure(c, "comment_empty") ELSE c]
  /\ ncalls' = ncalls + 1
  /\ UNCHANGED <<likes, notifications, files, page, uiVars, ratings, followers, comments, photos, profiles, nextId, latest>>

\* insert({id: commentId, user_id, photo_id, content: content.trim()})
addComment_insert(s, fail) ==
  LET c == call[s]
  IN /\ c.op = "addComment" /\ c.pc = "insert"
     /\ IF fail
          THEN /\ call' = [call EXCEPT ![s] = StoreFailure(c)]
               /\ UNCHANGED <<comments, nextId>>
          ELSE /\ comments' = comments \cup
                    {[id |-> nextId, user_id |-> c.uid, photo_id |-> c.tgt,
                      content |-> Trim(c.content)]}
               /\ nextId' = nextId + 1
               /\ call' = [call EXCEPT ![s] =
                             ReturnSuccess([c EXCEPT !.cid = nextId,
                                                     !.affected = {nextId}])]
     /\ UNCHANGED <<likes, notifications, files, page, uiVars, ratings, followers, photos, profiles, ncalls, latest>>

addComment(s) ==
  \/ \E u \in Users, ph \in Photos, text \in Contents :
       addComment_call(s, u, ph, text)
  \/ \E fail \in BOOLEAN : addComment_insert(s, fail)

\* -------------------------------------------------------- deleteComment
deleteComment_call(s, id, u) ==
  /\ CanInvoke(s)
  /\ call' = [call EXCEPT ![s] =
                [NewCall(s, "deleteComment", "fetch") EXCEPT
                   !.cid = id, !.uid = u]]
  /\ ncalls' = ncalls + 1
  /\ UNCHANGED <<likes, notifications, files, page, uiVars, ratings, followers, comments, photos, profiles, nextId, latest>>

\* deleteComment_fetch with the ownership test left out
deleteComment_fetch_NoOwnerTest(s, fail) ==
  LET c == call[s]
      found == {r \in comments : r.id = c.cid}
  IN /\ c.op = "deleteComment" /\ c.pc = "fetch"
     /\ call' = [call EXCEPT ![s] =
                   IF fail \/ found = {}
                     THEN StoreFailure(c)
                     ELSE [c EXCEPT !.pc = "delete"]]
     /\ UNCHANGED <<likes, notifications, files, page, uiVars, ratings, followers, comments, photos, profiles, nextId,
                    ncalls, latest>>

\* select('user_id').eq('id', commentId).single(): no row is an error;
\* then the ownership test comment.user_id !== userId
deleteComment_fetch(s, fail) ==
  LET c == call[s]
      found == {r \in comments : r.id = c.cid}
  IN /\ c.op = "deleteComment" /\ c.pc = "fetch"
     /\ call' = [call EXCEPT ![s] =
                   IF fail \/ found = {}
                     THEN StoreFailure(c)
                   ELSE IF \E r \in found : r.user_id # c.uid
                     THEN ReturnFailure(c, "no_permission")
                   ELSE [c EXCEPT !.pc = "delete"]]
     /\ UNCHANGED <<likes, notifications, files, page, uiVars, ratings, followers, comments, photos, profiles, nextId,
                    ncalls, latest>>

\* delete().eq('id', commentId)
deleteComment_delete(s, fail) ==
  LET c == call[s]
      found == {r \in comments : r.id = c.cid}
  IN /\ c.op = "deleteComment" /\ c.pc = "delete"
     /\ IF fail
          THEN /\ call' = [call EXCEPT ![s] = StoreFailure(c)]
               /\ UNCHANGED comments
          ELSE /\ comments' = comments \ found
               /\ call' = [call EXCEPT ![s] =
                             ReturnSuccess([c EXCEPT
                                !.affected = {r.id : r \in found}])]
     /\ UNCHANGED <<likes, notifications, files, page, uiVars, ratings, followers, photos, profiles, nextId, ncalls, latest>>

\* a caller names a comment it has seen, or an id no comment has
CommentIds == {r.id : r \in comments} \cup {nextId}

deleteComment(s) ==
  \/ \E id \in CommentIds, u \in Users : deleteComment_call(s, id, u)
  \/ \E fail \in BOOLEAN : deleteComment_fetch(s, fail)
  \/ \E fail \in BOOLEAN : deleteComment_delete(s, fail)

\* ----------------------------------------------------------- deletePhoto
deletePhoto_call(s, ph, u) ==
  /\ CanInvoke(s)
  /\ call' = [call EXCEPT ![s] =
                [NewCall(s, "deletePhoto", "fetch") EXCEPT !.tgt = ph, !.uid = u]]
  /\ ncalls' = ncalls + 1
  /\ UNCHANGED <<likes, notifications, files, page, uiVars, ratings, followers,
                 comments, photos, profiles, nextId, latest>>

\* deletePhoto_fetch with the ownership test left out
deletePhoto_fetch_NoOwnerTest(s, fail) ==
  LET c == call[s]
  IN /\ c.op = "deletePhoto" /\ c.pc = "fetch"
     /\ call' = [call EXCEPT ![s] =
                   IF fail \/ c.tgt \notin DOMAIN photos
                     THEN StoreFailure(c)
                     ELSE [c EXCEPT !.pc = "comments"]]
     /\ UNCHANGED <<likes, notifications, files, page, uiVars, ratings, followers,
                    comments, photos, profiles, nextId, ncalls, latest>>

\* select('image_url, user_id').eq('id', photoId).single(), then the
\* security check photoData.user_id !== userId
deletePhoto_fetch(s, fail) ==
  LET c == call[s]
  IN /\ c.op = "deletePhoto" /\ c.pc = "fetch"
     /\ call' = [call EXCEPT ![s] =
                   IF fail \/ c.tgt \notin DOMAIN photos
                     THEN StoreFailure(c)
                   ELSE IF photos[c.tgt].user_id # c.uid
                     THEN ReturnFailure(c, "not_owner")
                   ELSE [c EXCEPT !.pc = "comments"]]
     /\ UNCHANGED <<likes, notifications, files, page, uiVars, ratings, followers,
                    comments, photos, profiles, nextId, ncalls, latest>>

\* 1. comments.delete().eq('photo_id', photoId); if (commentsError) throw
deletePhoto_comments(s, fail) ==
  LET c == call[s]
  IN /\ c.op = "deletePhoto" /\ c.pc = "comments"
     /\ IF fail
          THEN /\ call' = [call EXCEPT ![s] = StoreFailure(c)]
               /\ UNCHANGED comments
          ELSE /\ comments' = {r \in comments : r.photo_id # c.tgt}
               /\ call' = [call EXCEPT ![s] =
                             [c EXCEPT !.pc = "ratings",
                                       !.affected = c.affected \cup
                                          {r.id : r \in {x \in comments :
                                                          x.photo_id = c.tgt}}]]
     /\ UNCHANGED <<likes, notifications, files, page, uiVars, ratings, followers,
                    photos, profiles, nextId, ncalls, latest>>

\* 2. ratings.delete().eq('photo_id', photoId); if (ratingsError) throw
deletePhoto_ratings(s, fail) ==
  LET c == call[s]
  IN /\ c.op = "deletePhoto" /\ c.pc = "ratings"
     /\ IF fail
          THEN /\ call' = [call EXCEPT ![s] = StoreFailure(c)]
               /\ UNCHANGED ratings
          ELSE /\ ratings' = {r \in ratings : r.photo_id # c.tgt}
               /\ call' = [call EXCEPT ![s] =
                             [c EXCEPT !.pc = "likes",
                                       !.affected = c.affected \cup
                                          {r.id : r \in {x \in ratings :
                                                          x.photo_id = c.tgt}}]]
     /\ UNCHANGED <<likes, notifications, files, page, uiVars, followers, comments,
                    photos, profiles, nextId, ncalls, latest>>

\* 3. likes.delete().eq('photo_id', photoId); if (likesError) throw
deletePhoto_likes(s, fail) ==
  LET c == call[s]
  IN /\ c.op = "deletePhoto" /\ c.pc = "likes"
     /\ IF fail
          THEN /\ call' = [call EXCEPT ![s] = StoreFailure(c)]
               /\ UNCHANGED likes
          ELSE /\ likes' = {r \in likes : r.photo_id # c.tgt}
               /\ call' = [call EXCEPT ![s] =
                             [c EXCEPT !.pc = "photo",
                                       !.affected = c.affected \cup
                                          {r.id : r \in {x \in likes :
                                                          x.photo_id = c.tgt}}]]
     /\ UNCHANGED <<notifications, files, page, uiVars, ratings, followers, comments,
                    photos, profiles, nextId, ncalls, latest>>

\* 4. photos.delete().eq('id', photoId); if (photoError) throw
deletePhoto_photo(s, fail) ==
  LET c == call[s]
  IN /\ c.op = "deletePhoto" /\ c.pc = "photo"
     /\ IF fail
          THEN /\ call' = [call EXCEPT ![s] = StoreFailure(c)]
               /\ UNCHANGED photos
          ELSE /\ photos' = [ph \in DOMAIN photos \ {c.tgt} |-> photos[ph]]
               /\ call' = [call EXCEPT ![s] = [c EXCEPT !.pc = "storage"]]
     /\ UNCHANGED <<likes, notifications, files, page, uiVars, ratings, followers,
                    comments, profiles, nextId, ncalls, latest>>

\* 5. storage.from('images').remove([fileName]); a storageError is only logged
deletePhoto_storage(s, fail) ==
  LET c == call[s]
  IN /\ c.op = "deletePhoto" /\ c.pc = "storage"
     /\ files' = IF fail THEN files ELSE files \ {c.tgt}
     /\ call' = [call EXCEPT ![s] = ReturnSuccess([c EXCEPT !.failed = fail])]
     /\ UNCHANGED <<likes, notifications, page, uiVars, ratings, followers, comments,
                    photos, profiles, nextId, ncalls, latest>>

deletePhoto(s) ==
  \/ \E ph \in Photos, u \in Users : deletePhoto_call(s, ph, u)
  \/ \E fail \in BOOLEAN : deletePhoto_fetch(s, fail)
  \/ \E fail \in BOOLEAN : deletePhoto_comments(s, fail)
  \/ \E fail \in BOOLEAN : deletePhoto_ratings(s, fail)
  \/ \E fail \in BOOLEAN : deletePhoto_likes(s, fail)
  \/ \E fail \in BOOLEAN : deletePhoto_photo(s, fail)
  \/ \E fail \in BOOLEAN : deletePhoto_storage(s, fail)

\* ------------------------------------------------------------- likePhoto
likePhoto_call(s, u, ph) ==
  /\ CanInvoke(s)
  /\ call' = [call EXCEPT ![s] =
                [NewCall(s, "likePhoto", "check") EXCEPT !.uid = u, !.tgt = ph]]
  /\ ncalls' = ncalls + 1
  /\ UNCHANGED <<likes, notifications, files, page, uiVars, ratings, followers,
                 comments, photos, profiles, nextId, latest>>

\* const { data: existingLike } = select('id')...maybeSingle(): the error is
\* not read, so a failed request and a multi-row match leave existingLike null
likePhoto_check(s, fail) ==
  LET c == call[s]
      found == {r \in likes : r.user_id = c.uid /\ r.photo_id = c.tgt}
      existing == IF fail \/ Cardinality(found) > 1
                    THEN {} ELSE {r.id : r \in found}
  IN /\ c.op = "likePhoto" /\ c.pc = "check"
     /\ call' = [call EXCEPT ![s] =
                   IF existing # {}
                     THEN ReturnSuccess([c EXCEPT !.existing = existing,
                                                  !.failed = fail])
                     ELSE [c EXCEPT !.pc = "insert", !.failed = fail]]
     /\ UNCHANGED <<likes, notifications, files, page, uiVars, ratings, followers,
                    comments, photos, profiles, nextId, ncalls, latest>>

\* insert({id: likeId, user_id, photo_id}); if (error) throw
likePhoto_insert(s, fail) ==
  LET c == call[s]
  IN /\ c.op = "likePhoto" /\ c.pc = "insert"
     /\ IF fail
          THEN /\ call' = [call EXCEPT ![s] = StoreFailure(c)]
               /\ UNCHANGED <<likes, nextId>>
          ELSE /\ likes' = likes \cup
                    {[id |-> nextId, user_id |-> c.uid, photo_id |-> c.tgt]}
               /\ nextId' = nextId + 1
               /\ call' = [call EXCEPT ![s] =
                             ReturnSuccess([c EXCEPT !.affected = {nextId}])]
     /\ UNCHANGED <<notifications, files, page, uiVars, ratings, followers, comments,
                    photos, profiles, ncalls, latest>>

likePhoto(s) ==
  \/ \E u \in Users, ph \in Photos : likePhoto_call(s, u, ph)
  \/ \E fail \in BOOLEAN : likePhoto_check(s, fail)
  \/ \E fail \in BOOLEAN : likePhoto_insert(s, fail)

\* ----------------------------------------------------------- unlikePhoto
unlikePhoto_call(s, u, ph) ==
  /\ CanInvoke(s)
  /\ call' = [call EXCEPT ![s] =
                [NewCall(s, "unlikePhoto", "delete") EXCEPT !.uid = u, !.tgt = ph]]
  /\ ncalls' = ncalls + 1
  /\ UNCHANGED <<likes, notifications, files, page, uiVars, ratings, followers,
                 comments, photos, profiles, nextId, latest>>

\* delete().eq('user_id', userId).eq('photo_id', photoId)
unlikePhoto_delete(s, fail) ==
  LET c == call[s]
      found == {r \in likes : r.user_id = c.uid /\ r.photo_id = c.tgt}
  IN /\ c.op = "unlikePhoto" /\ c.pc = "delete"
     /\ IF fail
          THEN /\ call' = [call EXCEPT ![s] = StoreFailure(c)]
               /\ UNCHANGED likes
          ELSE /\ likes' = likes \ found
               /\ call' = [call EXCEPT ![s] =
                             ReturnSuccess([c EXCEPT
                                !.affected = {r.id : r \in found}])]
     /\ UNCHANGED <<notifications, files, page, uiVars, ratings, followers, comments,
                    photos, profiles, nextId, ncalls, latest>>

unlikePhoto(s) ==
  \/ \E u \in Users, ph \in Photos : unlikePhoto_call(s, u, ph)
  \/ \E fail \in BOOLEAN : unlikePhoto_delete(s, fail)

\* --------------------------------------------------------- getUserRating
getUserRating_call(s, u, ph) ==
  /\ CanInvoke(s)
  /\ call' = [call EXCEPT ![s] =
                [NewCall(s, "getUserRating", "fetch") EXCEPT
                   !.uid = u, !.tgt = ph]]
  /\ ncalls' = ncalls + 1
  /\ UNCHANGED <<likes, notifications, files, page, uiVars, ratings, followers,
                 comments, photos, profiles, nextId, latest>>

\* what getUserRating returns: select('*')...maybeSingle(); an error (a failed
\* request, or more than one matching row) is caught and null is returned;
\* otherwise data ? data.rating : null.  {} stands for null.
UserRatingResult(found, fail) ==
  IF fail \/ Cardinality(found) > 1 THEN {} ELSE {r.rating : r \in found}

getUserRating_fetch(s, fail) ==
  LET c == call[s]
      found == {r \in ratings : r.user_id = c.uid /\ r.photo_id = c.tgt}
  IN /\ c.op = "getUserRating" /\ c.pc = "fetch"
     /\ call' = [call EXCEPT ![s] =
                   [c EXCEPT !.pc = "done",
                             !.value = UserRatingResult(found, fail),
                             !.failed = fail,
                             !.affected = {r.id : r \in found}]]
     /\ UNCHANGED <<likes, notifications, files, page, uiVars, ratings, followers,
                    comments, photos, profiles, nextId, ncalls, latest>>

getUserRating(s) ==
  \/ \E u \in Users, ph \in Photos : getUserRating_call(s, u, ph)
  \/ \E fail \in BOOLEAN : getUserRating_fetch(s, fail)

\* ---------------------------------------------------- createNotification
\* createNotification_call with the self-action test left out
createNotification_call_NoSelfTest(s, u, sender, k) ==
  /\ CanInvoke(s)
  /\ call' = [call EXCEPT ![s] =
                [NewCall(s, "createNotification", "insert") EXCEPT
                   !.uid = u, !.tgt = sender, !.kind = k]]
  /\ ncalls' = ncalls + 1
  /\ UNCHANGED <<likes, notifications, files, page, uiVars, ratings, followers,
                 comments, photos, profiles, nextId, latest>>

\* the synchronous prefix: if (userId === senderId) return { success: true }
createNotification_call(s, u, sender, k) ==
  /\ CanInvoke(s)
  /\ LET c == [NewCall(s, "createNotification", "insert") EXCEPT
                 !.uid = u, !.tgt = sender, !.kind = k]
     IN call' = [call EXCEPT ![s] =
                   IF u = sender THEN ReturnSuccess(c) ELSE c]
  /\ ncalls' = ncalls + 1
  /\ UNCHANGED <<likes, notifications, files, page, uiVars, ratings, followers,
                 comments, photos, profiles, nextId, latest>>

\* insert({id: randomUUID(), user_id, sender_id, type, content,
\* is_read: false}); if (error) throw
createNotification_insert(s, fail) ==
  LET c == call[s]
  IN /\ c.op = "createNotification" /\ c.pc = "insert"
     /\ IF fail
          THEN /\ call' = [call EXCEPT ![s] = StoreFailure(c)]
               /\ UNCHANGED <<notifications, nextId>>
          ELSE /\ notifications' = notifications \cup
                    {[id |-> nextId, user_id |-> c.uid, sender_id |-> c.tgt,
                      type |-> c.kind, is_read |-> FALSE]}
               /\ nextId' = nextId + 1
               /\ call' = [call EXCEPT ![s] =
                             ReturnSuccess([c EXCEPT !.affected = {nextId}])]
     /\ UNCHANGED <<likes, files, page, uiVars, ratings, followers, comments, photos,
                    profiles, ncalls, latest>>

createNotification(s) ==
  \/ \E u \in Users, sender \in Users, k \in NotifKinds :
       createNotification_call(s, u, sender, k)
  \/ \E fail \in BOOLEAN : createNotification_insert(s, fail)

\* -------------------------------------------- markAllNotificationsAsRead
markAllNotificationsAsRead_call(s, u) ==
  /\ CanInvoke(s)
  /\ call' = [call EXCEPT ![s] =
                [NewCall(s, "markAllNotificationsAsRead", "update") EXCEPT
                   !.uid = u]]
  /\ ncalls' = ncalls + 1
  /\ UNCHANGED <<likes, notifications, files, page, uiVars, ratings, followers,
                 comments, photos, profiles, nextId, latest>>

\* MarkAllRead with the user_id filter left out
MarkAllRead_EveryUser(rows, u) ==
  {IF ~n.is_read THEN [n EXCEPT !.is_read = TRUE] ELSE n : n \in rows}

\* update({ is_read: true }).eq('user_id', userId).eq('is_read', false)
MarkAllRead(rows, u) ==
  {IF n.user_id = u /\ ~n.is_read THEN [n EXCEPT !.is_read = TRUE] ELSE n
   : n \in rows}

markAllNotificationsAsRead_update(s, fail) ==
  LET c == call[s]
  IN /\ c.op = "markAllNotificationsAsRead" /\ c.pc = "update"
     /\ IF fail
          THEN /\ call' = [call EXCEPT ![s] = StoreFailure(c)]
               /\ UNCHANGED notifications
          ELSE /\ notifications' = MarkAllRead(notifications, c.uid)
               /\ call' = [call EXCEPT ![s] = ReturnSuccess(c)]
     /\ UNCHANGED <<likes, files, page, uiVars, ratings, followers, comments, photos,
                    profiles, nextId, ncalls, latest>>

markAllNotificationsAsRead(s) ==
  \/ \E u \in Users : markAllNotificationsAsRead_call(s, u)
  \/ \E fail \in BOOLEAN : markAllNotificationsAsRead_update(s, fail)

\* ------------------------------------------------ markNotificationAsRead
markNotificationAsRead_call(s, id) ==
  /\ CanInvoke(s)
  /\ call' = [call EXCEPT ![s] =
                [NewCall(s, "markNotificationAsRead", "update") EXCEPT
                   !.cid = id]]
  /\ ncalls' = ncalls + 1
  /\ UNCHANGED <<likes, notifications, files, page, uiVars, ratings, followers,
                 comments, photos, profiles, nextId, latest>>

\* update({ is_read: true }).eq('id', notificationId)
MarkRead(rows, id) ==
  {IF n.id = id THEN [n EXCEPT !.is_read = TRUE] ELSE n : n \in rows}

markNotificationAsRead_update(s, fail) ==
  LET c == call[s]
  IN /\ c.op = "markNotificationAsRead" /\ c.pc = "update"
     /\ IF fail
          THEN /\ call' = [call EXCEPT ![s] = StoreFailure(c)]
               /\ UNCHANGED notifications
          ELSE /\ notifications' = MarkRead(notifications, c.cid)
               /\ call' = [call EXCEPT ![s] = ReturnSuccess(c)]
     /\ UNCHANGED <<likes, files, page, uiVars, ratings, followers, comments, photos,
                    profiles, nextId, ncalls, latest>>

\* a caller names a notification it has seen, or an id no notification has
NotificationIds == {n.id : n \in notifications} \cup {nextId}

markNotificationAsRead(s) ==
  \/ \E id \in NotificationIds : markNotificationAsRead_call(s, id)
  \/ \E fail \in BOOLEAN : markNotificationAsRead_update(s, fail)

\* ------------------------------------- PhotoDetailPage with PhotoRating
PageSession == "s1"      \* the session showing the page
PageUser == "u2"         \* the signed-in user
PagePhoto == "p1"        \* the photo shown
Stars == RatingValues \ {0}     \* the star buttons offered

\* the page after getPhoto has loaded the photo and PhotoRating has mounted:
\* the user may or may not have a stored rating; the effect's getUserRating
\* request is on its way
InitDetail ==
  /\ \/ ratings = {} /\ nextId = 1
     \/ \E v \in Stars :
          /\ ratings = {[id |-> 1, user_id |-> PageUser,
                         photo_id |-> PagePhoto, rating |-> v]}
          /\ nextId = 2
  /\ followers = {}
  /\ comments = {}
  /\ photos = [p \in Photos |->
                 [user_id |-> "u1", rating |-> 0, votes_count |-> 0,
                  likes_count |-> 0, comments_count |-> 0, created_at |-> 0]]
  /\ profiles = [u \in Users |-> [followers_count |-> 0, following_count |-> 0]]
  /\ call = [s \in Sessions |-> IdleCall]
  /\ ncalls = 0
  /\ latest = <<>>
  /\ likes = {}
  /\ notifications = {}
  /\ files = Photos
  /\ page = [IdlePage EXCEPT !.load = "fetch",
                             !.votes_count = photos[PagePhoto].votes_count]
  /\ gallery = IdleGallery
  /\ card = IdleCard
  /\ auth = IdleAuth
  /\ feed = IdleFeed
  /\ popover = IdlePopover

\* loadUserRating: the store request of getUserRating(user.id, photoId)
loadUserRating_fetch(fail) ==
  LET found == {r \in ratings :
                  r.user_id = PageUser /\ r.photo_id = PagePhoto}
  IN /\ page.load = "fetch"
     /\ page' = [page EXCEPT !.load = "apply",
                             !.loaded = UserRatingResult(found, fail)]
     /\ UNCHANGED <<likes, notifications, files, uiVars, ratings, followers, comments,
                    photos, profiles, call, nextId, ncalls, latest>>

\* loadUserRating after the await: if (userRating) { setRating(userRating);
\* setHasRated(true) } else if (initialRating) ...   with initialRating = 0
loadUserRating_apply ==
  /\ page.load = "apply"
  /\ page' = IF page.loaded # {} /\ page.loaded # {0}
               THEN [page EXCEPT !.load = "done", !.rating = page.loaded,
                                 !.hasRated = TRUE]
               ELSE [page EXCEPT !.load = "done"]
  /\ UNCHANGED <<likes, notifications, files, uiVars, ratings, followers, comments,
                 photos, profiles, call, nextId, ncalls, latest>>

\* rating || 0
RatingOrZero(r) == IF r = {} THEN 0 ELSE CHOOSE v \in r : TRUE

\* a click on star v: handleRating runs up to its await of ratePhoto; the
\* buttons are disabled while isRating; the closure holds the rating state
\* of the render the click happened in
handleRating_click(v) ==
  /\ ~page.isRating /\ page.handle # "waiting"
  /\ CanInvoke(PageSession)
  /\ page' = [page EXCEPT !.isRating = TRUE, !.handle = "waiting",
                          !.oldRating = RatingOrZero(page.rating)]
  /\ call' = [call EXCEPT ![PageSession] =
                [NewCall(PageSession, "ratePhoto", "check") EXCEPT
                   !.uid = PageUser, !.tgt = PagePhoto, !.rating = v]]
  /\ ncalls' = ncalls + 1
  /\ UNCHANGED <<likes, notifications, files, uiVars, ratings, followers, comments,
                 photos, profiles, nextId, latest>>

\* onRatingChange of PhotoDetailPage:
\* newVotesCount = prev.votes_count + (oldRating === 0 ? 1 : 0)
NewVotesCount(votes, oldRating) == votes + (IF oldRating = 0 THEN 1 ELSE 0)

\* handleRating after the await: setIsRating(false); on success setRating,
\* setHasRated and onRatingChange(rating || 0, value)
handleRating_resume ==
  LET c == call[PageSession]
  IN /\ page.handle = "waiting"
     /\ c.op = "ratePhoto" /\ c.pc = "done"
     /\ page' =
          IF c.success
            THEN [page EXCEPT
                    !.isRating = FALSE, !.handle = "rated",
                    !.rating = {c.rating}, !.hasRated = TRUE,
                    !.votes_count = NewVotesCount(page.votes_count, page.oldRating),
                    !.delta = NewVotesCount(page.votes_count, page.oldRating)
                                - page.votes_count,
                    !.hadStored = (c.existing # {})]
            ELSE [page EXCEPT !.isRating = FALSE, !.handle = "failed"]
     /\ UNCHANGED <<likes, notifications, files, uiVars, ratings, followers, comments,
                    photos, profiles, call, nextId, ncalls, latest>>

NextDetail ==
  \/ \E fail \in BOOLEAN : loadUserRating_fetch(fail)
  \/ loadUserRating_apply
  \/ \E v \in Stars : handleRating_click(v)
  \/ \E fail \in BOOLEAN : ratePhoto_check(PageSession, fail)
  \/ \E fail \in BOOLEAN : ratePhoto_save(PageSession, fail)
  \/ handleRating_resume

\* ------------------------------------------------------------ uploadPhoto
storeVars == <<ratings, followers, comments, profiles, latest, likes,
               notifications>>

\* uploadPhoto(userId, file, metadata); the id stands for the file name and
\* for crypto.randomUUID()
uploadPhoto_call(s, u, ph) ==
  /\ CanInvoke(s)
  /\ ph \notin DOMAIN photos /\ ph \notin files
  /\ call' = [call EXCEPT ![s] =
                [NewCall(s, "uploadPhoto", "upload") EXCEPT
                   !.uid = u, !.tgt = ph]]
  /\ ncalls' = ncalls + 1
  /\ UNCHANGED <<storeVars, photos, files, nextId, page, uiVars>>

\* supabase.storage.from('images').upload(fileName, file)
uploadPhoto_upload(s, fail) ==
  LET c == call[s]
  IN /\ c.op = "uploadPhoto" /\ c.pc = "upload"
     /\ IF fail
          THEN /\ call' = [call EXCEPT ![s] = StoreFailure(c)]
               /\ UNCHANGED files
          ELSE /\ call' = [call EXCEPT ![s] = [c EXCEPT !.pc = "insert"]]
               /\ files' = files \cup {c.tgt}
     /\ UNCHANGED <<storeVars, photos, nextId, ncalls, page, uiVars>>

\* supabase.from('photos').insert({ ..., rating: 0, votes_count: 0,
\* likes_count: 0, comments_count: 0, created_at: new Date() })
uploadPhoto_insert(s, fail) ==
  LET c == call[s]
  IN /\ c.op = "uploadPhoto" /\ c.pc = "insert"
     /\ IF fail \/ c.tgt \in DOMAIN photos
          THEN /\ call' = [call EXCEPT ![s] = StoreFailure(c)]
               /\ UNCHANGED photos
          ELSE /\ call' = [call EXCEPT ![s] = ReturnSuccess(c)]
               /\ photos' =
                    [ph \in DOMAIN photos \cup {c.tgt} |->
                       IF ph = c.tgt
                         THEN [user_id |-> c.uid, rating |-> 0,
                               votes_count |-> 0, likes_count |-> 0,
                               comments_count |-> 0, created_at |-> ncalls]
                         ELSE photos[ph]]
     /\ UNCHANGED <<storeVars, files, nextId, ncalls, page, uiVars>>

uploadPhoto(s) ==
  \/ \E u \in Users, ph \in FeedPhotos : uploadPhoto_call(s, u, ph)
  \/ \E fail \in BOOLEAN : uploadPhoto_upload(s, fail)
  \/ \E fail \in BOOLEAN : uploadPhoto_insert(s, fail)

\* ----------------------------------------------------------- getAllPhotos
PageSize == 1     \* photos per page

SortOrders == {"recent", "top-rated"}

\* the column a sort order sorts on
SortColumn(sortBy) ==
  IF sortBy = "recent" THEN "created_at" ELSE "rating"

\* query.order(column, { ascending: false })
RECURSIVE OrderDesc(_, _)
OrderDesc(ids, col) ==
  IF ids = {} THEN <<>>
  ELSE LET top == CHOOSE p \in ids :
                    \A q \in ids : photos[q][col] <= photos[p][col]
       IN <<top>> \o OrderDesc(ids \ {top}, col)

\* query.range(from, to) with from = (page - 1) * limit, to = from + limit - 1
Range(seq, pageNum) ==
  LET from == (pageNum - 1) * PageSize + 1
      to == IF pageNum * PageSize < Len(seq) THEN pageNum * PageSize
            ELSE Len(seq)
  IN IF from > Len(seq) THEN <<>> ELSE SubSeq(seq, from, to)

\* one entry of the returned list: the photo row with its id
PhotoEntry(ph) ==
  [id |-> ph, likes_count |-> photos[ph].likes_count,
   rating |-> photos[ph].rating, votes_count |-> photos[ph].votes_count]

\* getAllPhotos: the rows of the page in the chosen order, [] on an error
getAllPhotos(sortBy, pageNum, fail) ==
  IF fail THEN <<>>
  ELSE LET ids == Range(OrderDesc(DOMAIN photos, SortColumn(sortBy)), pageNum)
       IN [i \in 1..Len(ids) |-> PhotoEntry(ids[i])]

\* hasMore: a full page came back
HasMore(result) == Len(result) = PageSize

\* --------------------------------------------------------- GalleryContent
\* GalleryContent after its first page has loaded; the user may have a
\* stored rating, and loadUserRatings' request is on its way
InitGallery ==
  /\ \/ ratings = {} /\ nextId = 1
     \/ \E v \in Stars :
          /\ ratings = {[id |-> 1, user_id |-> PageUser,
                         photo_id |-> PagePhoto, rating |-> v]}
          /\ nextId = 2
  /\ followers = {}
  /\ comments = {}
  /\ \E n \in 0..1 :
       photos = [p \in Photos |->
                   [user_id |-> "u1", rating |-> 0, votes_count |-> 0,
                    likes_count |-> n, comments_count |-> 0,
                    created_at |-> 0]]
  /\ profiles = [u \in Users |-> [followers_count |-> 0, following_count |-> 0]]
  /\ call = [s \in Sessions |-> IdleCall]
  /\ ncalls = 0
  /\ latest = <<>>
  /\ likes = {}
  /\ notifications = {}
  /\ files = Photos
  /\ page = IdlePage
  /\ gallery = [IdleGallery EXCEPT
                  !.photos = getAllPhotos("recent", 1, FALSE),
                  !.hasMore = HasMore(getAllPhotos("recent", 1, FALSE)),
                  !.load = "fetch"]
  /\ card = IdleCard
  /\ auth = IdleAuth
  /\ feed = IdleFeed
  /\ popover = IdlePopover

galleryFrame == <<storeVars, photos, files, call, nextId, ncalls, page,
                  card, auth, feed, popover>>

\* getUserRatings(user.id): the map photo_id -> rating of the user's rows,
\* {} when a request fails
UserRatingsMap(u, fail) ==
  [p \in FeedPhotos |->
     IF fail \/ p \notin DOMAIN photos THEN {}
     ELSE {r.rating : r \in {x \in ratings : x.user_id = u /\ x.photo_id = p}}]

loadUserRatings_fetch(fail) ==
  /\ gallery.load = "fetch"
  /\ gallery' = [gallery EXCEPT !.load = "apply",
                                !.loaded = UserRatingsMap(PageUser, fail)]
  /\ UNCHANGED galleryFrame

\* setUserRatings(ratings)
loadUserRatings_apply ==
  /\ gallery.load = "apply"
  /\ gallery' = [gallery EXCEPT !.load = "done",
                                !.userRatings = gallery.loaded]
  /\ UNCHANGED galleryFrame

\* loadMorePhotos up to its await: if (loading || !hasMore) return
loadMorePhotos_call ==
  /\ ~gallery.loading /\ gallery.hasMore /\ gallery.more = "idle"
  /\ gallery.page <= Cardinality(FeedPhotos)
  /\ gallery' = [gallery EXCEPT !.loading = TRUE, !.more = "fetch",
                                !.nextPage = gallery.page + 1]
  /\ UNCHANGED galleryFrame

\* the request of getAllPhotos(sortBy, nextPage); sortBy stays 'recent'
loadMorePhotos_fetch(fail) ==
  /\ gallery.more = "fetch"
  /\ gallery' =
       [gallery EXCEPT
          !.more = "apply",
          !.newPhotos = getAllPhotos("recent", gallery.nextPage, fail),
          !.moreAvailable =
             HasMore(getAllPhotos("recent", gallery.nextPage, fail))]
  /\ UNCHANGED galleryFrame

\* setPhotos(prev => [...prev, ...newPhotos]); setHasMore; setPage; setLoading
loadMorePhotos_apply ==
  /\ gallery.more = "apply"
  /\ gallery' = [gallery EXCEPT
                   !.more = "idle", !.loading = FALSE,
                   !.photos = gallery.photos \o gallery.newPhotos,
                   !.hasMore = gallery.moreAvailable,
                   !.page = gallery.nextPage,
                   !.newPhotos = <<>>]
  /\ UNCHANGED galleryFrame

\* the ids of the entries shown
ShownIds == {gallery.photos[i].id : i \in DOMAIN gallery.photos}

\* handleRate(id, rating) up to its await: the optimistic setUserRatings,
\* then ratePhoto(user.id, id, rating)
handleRate_click(id, v) ==
  /\ id \in ShownIds
  /\ gallery.handle \notin {"waiting", "refresh"}
  /\ CanInvoke(PageSession)
  /\ gallery' = [gallery EXCEPT
                   !.handle = "waiting", !.id = id,
                   !.before = gallery.userRatings[id],
                   !.userRatings[id] = {v}]
  /\ call' = [call EXCEPT ![PageSession] =
                [NewCall(PageSession, "ratePhoto", "check") EXCEPT
                   !.uid = PageUser, !.tgt = id, !.rating = v]]
  /\ ncalls' = ncalls + 1
  /\ UNCHANGED <<storeVars, photos, files, nextId, page, card, auth, feed,
                 popover>>

\* handleRate after the await: on failure delete newRatings[id], on success
\* go on to getPhotoById(id)
handleRate_resume ==
  LET c == call[PageSession]
  IN /\ gallery.handle = "waiting"
     /\ c.op = "ratePhoto" /\ c.pc = "done"
     /\ gallery' =
          IF ~c.success
            THEN [gallery EXCEPT !.handle = "reverted",
                                 !.userRatings[gallery.id] = {}]
            ELSE [gallery EXCEPT !.handle = "refresh"]
     /\ UNCHANGED galleryFrame

\* getPhotoById(id) and the setPhotos that copies rating and votes_count
\* into the entries of that photo; null on an error leaves the list alone
handleRate_refresh(fail) ==
  /\ gallery.handle = "refresh"
  /\ gallery' =
       IF fail \/ gallery.id \notin DOMAIN photos
         THEN [gallery EXCEPT !.handle = "done"]
         ELSE [gallery EXCEPT
                 !.handle = "done",
                 !.photos =
                    [i \in DOMAIN gallery.photos |->
                       IF gallery.photos[i].id = gallery.id
                         THEN [gallery.photos[i] EXCEPT
                                 !.rating = photos[gallery.id].rating,
                                 !.votes_count = photos[gallery.id].votes_count]
                         ELSE gallery.photos[i]]]
  /\ UNCHANGED galleryFrame

\* likes_count + (newLikedStatus ? 1 : -1)
ToggleLikes(count, newLikedStatus) ==
  count + (IF newLikedStatus THEN 1 ELSE -1)

\* handleLike(id): toggles likedPosts[id] and moves the likes_count of every
\* entry of that photo
handleLike_gallery(id) ==
  LET newLikedStatus == ~gallery.likedPosts[id]
  IN /\ id \in ShownIds
     /\ gallery' =
          [gallery EXCEPT
             !.likedPosts[id] = newLikedStatus,
             !.photos =
                [i \in DOMAIN gallery.photos |->
                   IF gallery.photos[i].id = id
                     THEN [gallery.photos[i] EXCEPT
                             !.likes_count =
                                ToggleLikes(gallery.photos[i].likes_count,
                                            newLikedStatus)]
                     ELSE gallery.photos[i]]]
     /\ UNCHANGED galleryFrame

OtherSession == "s2"     \* a session of another user

NextGallery ==
  \/ \E fail \in BOOLEAN : loadUserRatings_fetch(fail)
  \/ loadUserRatings_apply
  \/ loadMorePhotos_call
  \/ \E fail \in BOOLEAN : loadMorePhotos_fetch(fail)
  \/ loadMorePhotos_apply
  \/ \E id \in FeedPhotos, v \in Stars : handleRate_click(id, v)
  \/ \E fail \in BOOLEAN : ratePhoto_check(PageSession, fail)
  \/ \E fail \in BOOLEAN : ratePhoto_save(PageSession, fail)
  \/ handleRate_resume
  \/ \E fail \in BOOLEAN : handleRate_refresh(fail)
  \/ \E id \in FeedPhotos : handleLike_gallery(id)
  \/ uploadPhoto(OtherSession)

\* ------------------------------------------- getFollowers / getFollowing
\* the list a select on followers maps to profiles: one entry per row, so a
\* profile appears as many times as it has rows
ProfileList(rows, col) ==
  {[id |-> u, copies |-> Cardinality({r \in rows : r[col] = u})] :
     u \in {r[col] : r \in rows}}

\* getFollowers(userId) / getFollowing(userId)
getFollowers_call(s, u) ==
  /\ CanInvoke(s)
  /\ call' = [call EXCEPT ![s] =
                [NewCall(s, "getFollowers", "fetch") EXCEPT !.tgt = u]]
  /\ ncalls' = ncalls + 1
  /\ UNCHANGED <<storeVars, photos, files, nextId, page, uiVars>>

getFollowing_call(s, u) ==
  /\ CanInvoke(s)
  /\ call' = [call EXCEPT ![s] =
                [NewCall(s, "getFollowing", "fetch") EXCEPT !.tgt = u]]
  /\ ncalls' = ncalls + 1
  /\ UNCHANGED <<storeVars, photos, files, nextId, page, uiVars>>

\* select follower:follower_id (...) .eq('followed_id', userId); an error is
\* caught and [] returned
getFollowers_fetch(s, fail) ==
  LET c == call[s]
      rows == {r \in followers : r.followed_id = c.tgt}
  IN /\ c.op = "getFollowers" /\ c.pc = "fetch"
     /\ call' = [call EXCEPT ![s] =
                   [c EXCEPT !.pc = "done", !.success = ~fail,
                             !.failed = fail,
                             !.value = IF fail THEN {}
                                       ELSE ProfileList(rows, "follower_id")]]
     /\ UNCHANGED <<storeVars, photos, files, nextId, ncalls, page, uiVars>>

\* select followed:followed_id (...) .eq('follower_id', userId)
getFollowing_fetch(s, fail) ==
  LET c == call[s]
      rows == {r \in followers : r.follower_id = c.tgt}
  IN /\ c.op = "getFollowing" /\ c.pc = "fetch"
     /\ call' = [call EXCEPT ![s] =
                   [c EXCEPT !.pc = "done", !.success = ~fail,
                             !.failed = fail,
                             !.value = IF fail THEN {}
                                       ELSE ProfileList(rows, "followed_id")]]
     /\ UNCHANGED <<storeVars, photos, files, nextId, ncalls, page, uiVars>>

getFollowers(s) ==
  \/ \E u \in Users : getFollowers_call(s, u)
  \/ \E fail \in BOOLEAN : getFollowers_fetch(s, fail)

getFollowing(s) ==
  \/ \E u \in Users : getFollowing_call(s, u)
  \/ \E fail \in BOOLEAN : getFollowing_fetch(s, fail)

NextFollow ==
  \E s \in Sessions :
    \/ followUser(s)
    \/ unfollowUser(s)
    \/ getFollowers(s)
    \/ getFollowing(s)

\* -------------------------------------------------------------- PhotoCard
RECURSIVE SumRatings(_)
SumRatings(rows) ==
  IF rows = {} THEN 0
  ELSE LET r == CHOOSE x \in rows : TRUE
       IN r.rating + SumRatings(rows \ {r})

\* a JavaScript number kept as a fraction; den = 0 stands for NaN or Infinity
Number(n) == [num |-> n, den |-> 1]

\* the ratings a photo has when the card mounts: none, one by the owner, one
\* by the owner and one by the user, or one by the user
CardRatings ==
  { {},
    {[id |-> 1, user_id |-> "u1", photo_id |-> PagePhoto, rating |-> 7]},
    {[id |-> 1, user_id |-> "u1", photo_id |-> PagePhoto, rating |-> 7],
     [id |-> 2, user_id |-> PageUser, photo_id |-> PagePhoto, rating |-> 9]},
    {[id |-> 2, user_id |-> PageUser, photo_id |-> PagePhoto, rating |-> 7]} }

\* the mean of a set of ratings whose sum is a multiple of their number
Mean(rows) ==
  IF rows = {} THEN 0 ELSE SumRatings(rows) \div Cardinality(rows)

\* PhotoCard rendered for PagePhoto with the photo row's rating, votes_count
\* and likes_count as props; checkLikeStatus' and loadUserRating's requests
\* are on their way
InitCard ==
  /\ ratings \in CardRatings
  /\ likes \in { {}, {[id |-> 3, user_id |-> PageUser, photo_id |-> PagePhoto]} }
  /\ nextId = 4
  /\ followers = {}
  /\ comments = {}
  /\ \E n \in 0..1 :
       photos = [p \in Photos |->
                   [user_id |-> "u1", rating |-> Mean(ratings),
                    votes_count |-> Cardinality(ratings),
                    likes_count |-> n, comments_count |-> 0,
                    created_at |-> 0]]
  /\ profiles = [u \in Users |-> [followers_count |-> 0, following_count |-> 0]]
  /\ call = [s \in Sessions |-> IdleCall]
  /\ ncalls = 0
  /\ latest = <<>>
  /\ notifications = {}
  /\ files = Photos
  /\ page = IdlePage
  /\ gallery = IdleGallery
  /\ card = [mounted |-> TRUE,
             votesCount |-> photos[PagePhoto].votes_count,
             currentRating |-> Number(photos[PagePhoto].rating),
             currentLikes |-> photos[PagePhoto].likes_count,
             isLiked |-> FALSE, isLoading |-> FALSE,
             likeLoad |-> "fetch", loadedLiked |-> FALSE,
             like |-> "idle", wasLiked |-> FALSE, matched |-> FALSE,
             likesBefore |-> 0, rowsBefore |-> {},
             rating |-> {}, rateLoad |-> "fetch", loadedRating |-> {},
             isRating |-> FALSE, rate |-> "idle", oldRating |-> 0]
  /\ auth = IdleAuth
  /\ feed = IdleFeed
  /\ popover = IdlePopover

cardFrame == <<storeVars, photos, files, call, nextId, ncalls, page,
               gallery, auth, feed, popover>>

\* hasLikedPhoto(user.id, id): !!data, false on an error
hasLikedPhoto(u, ph, fail) ==
  LET found == {r \in likes : r.user_id = u /\ r.photo_id = ph}
  IN ~fail /\ Cardinality(found) = 1

checkLikeStatus_fetch(fail) ==
  /\ card.mounted /\ card.likeLoad = "fetch"
  /\ card' = [card EXCEPT !.likeLoad = "apply",
                          !.loadedLiked = hasLikedPhoto(PageUser, PagePhoto, fail)]
  /\ UNCHANGED cardFrame

\* setIsLiked(liked)
checkLikeStatus_apply ==
  /\ card.mounted /\ card.likeLoad = "apply"
  /\ card' = [card EXCEPT !.likeLoad = "done", !.isLiked = card.loadedLiked]
  /\ UNCHANGED cardFrame

\* handleLike up to its await; the button is disabled while isLoading
handleLike_click ==
  LET op == IF card.isLiked THEN "unlikePhoto" ELSE "likePhoto"
      pc == IF card.isLiked THEN "delete" ELSE "check"
      stored == \E r \in likes : r.user_id = PageUser /\ r.photo_id = PagePhoto
  IN /\ card.mounted /\ ~card.isLoading /\ card.like # "waiting"
     /\ CanInvoke(PageSession)
     /\ card' = [card EXCEPT !.isLoading = TRUE, !.like = "waiting",
                             !.wasLiked = card.isLiked,
                             !.matched = (card.isLiked = stored),
                             !.likesBefore = card.currentLikes,
                             !.rowsBefore = likes]
     /\ call' = [call EXCEPT ![PageSession] =
                   [NewCall(PageSession, op, pc) EXCEPT
                      !.uid = PageUser, !.tgt = PagePhoto]]
     /\ ncalls' = ncalls + 1
     /\ UNCHANGED <<storeVars, photos, files, nextId, page, gallery, auth,
                    feed, popover>>

\* Math.max(0, prev - 1)
Decrement(prev) == IF prev - 1 > 0 THEN prev - 1 ELSE 0

\* handleLike after the await: the result of likePhoto / unlikePhoto is not
\* read, and neither of them throws
handleLike_resume ==
  LET c == call[PageSession]
  IN /\ card.like = "waiting"
     /\ c.op \in {"likePhoto", "unlikePhoto"} /\ c.pc = "done"
     /\ card' =
          IF card.wasLiked
            THEN [card EXCEPT !.like = "done", !.isLoading = FALSE,
                              !.currentLikes = Decrement(card.currentLikes),
                              !.isLiked = FALSE]
            ELSE [card EXCEPT !.like = "done", !.isLoading = FALSE,
                              !.currentLikes = card.currentLikes + 1,
                              !.isLiked = TRUE]
     /\ UNCHANGED cardFrame

\* PhotoRating inside the card: loadUserRating
cardRating_fetch(fail) ==
  LET found == {r \in ratings :
                  r.user_id = PageUser /\ r.photo_id = PagePhoto}
  IN /\ card.mounted /\ card.rateLoad = "fetch"
     /\ card' = [card EXCEPT !.rateLoad = "apply",
                             !.loadedRating = UserRatingResult(found, fail)]
     /\ UNCHANGED cardFrame

cardRating_apply ==
  /\ card.mounted /\ card.rateLoad = "apply"
  /\ card' = IF card.loadedRating # {} /\ card.loadedRating # {0}
               THEN [card EXCEPT !.rateLoad = "done",
                                 !.rating = card.loadedRating]
               ELSE [card EXCEPT !.rateLoad = "done"]
  /\ UNCHANGED cardFrame

\* PhotoRating.handleRating up to its await of ratePhoto
cardRating_click(v) ==
  /\ card.mounted /\ ~card.isRating /\ card.rate # "waiting"
  /\ CanInvoke(PageSession)
  /\ card' = [card EXCEPT !.isRating = TRUE, !.rate = "waiting",
                          !.oldRating = RatingOrZero(card.rating)]
  /\ call' = [call EXCEPT ![PageSession] =
                [NewCall(PageSession, "ratePhoto", "check") EXCEPT
                   !.uid = PageUser, !.tgt = PagePhoto, !.rating = v]]
  /\ ncalls' = ncalls + 1
  /\ UNCHANGED <<storeVars, photos, files, nextId, page, gallery, auth,
                 feed, popover>>

\* (currentRating * votesCount + newRating - oldRating) / votesCount
handleRatingChange(currentRating, votesCount, oldRating, newRating) ==
  [num |-> currentRating.num * votesCount
             + (newRating - oldRating) * currentRating.den,
   den |-> currentRating.den * votesCount]

\* PhotoRating.handleRating after the await: on success setRating and
\* onRatingChange(rating || 0, value), which is the card's handleRatingChange
cardRating_resume ==
  LET c == call[PageSession]
  IN /\ card.rate = "waiting"
     /\ c.op = "ratePhoto" /\ c.pc = "done"
     /\ card' =
          IF c.success
            THEN [card EXCEPT
                    !.isRating = FALSE, !.rate = "rated",
                    !.rating = {c.rating},
                    !.currentRating =
                       handleRatingChange(card.currentRating, card.votesCount,
                                          card.oldRating, c.rating)]
            ELSE [card EXCEPT !.isRating = FALSE, !.rate = "failed"]
     /\ UNCHANGED cardFrame

NextCard ==
  \/ \E fail \in BOOLEAN : checkLikeStatus_fetch(fail)
  \/ checkLikeStatus_apply
  \/ handleLike_click
  \/ \E fail \in BOOLEAN : likePhoto_check(PageSession, fail)
  \/ \E fail \in BOOLEAN : likePhoto_insert(PageSession, fail)
  \/ \E fail \in BOOLEAN : unlikePhoto_delete(PageSession, fail)
  \/ handleLike_resume
  \/ \E fail \in BOOLEAN : cardRating_fetch(fail)
  \/ cardRating_apply
  \/ \E v \in Stars : cardRating_click(v)
  \/ \E fail \in BOOLEAN : ratePhoto_check(PageSession, fail)
  \/ \E fail \in BOOLEAN : ratePhoto_save(PageSession, fail)
  \/ cardRating_resume

\* ------------------------------------------------------------ AuthProvider
\* pathnames as sequences of pieces, so that startsWith is a prefix test
Root == <<"/">>
GalleryPath == <<"/", "gallery">>
LoginPath == <<"/", "login">>
SignupPath == <<"/", "signup">>
UploadPath == <<"/", "upload">>
ProfilePath == <<"/", "profile">>

Pathnames ==
  {Root, GalleryPath, LoginPath, SignupPath, UploadPath, ProfilePath,
   <<"/", "upload", "s">>, <<"/", "profile", "/", "edit">>,
   <<"/", "login", "/", "reset">>, <<"/", "photos", "/", "1">>}

NoPath == <<>>     \* no router.push pending
NoUser == ""       \* user is null

authRequiredPages == {UploadPath, ProfilePath}
authPages == {LoginPath, SignupPath}
publicPages == {Root, GalleryPath}

\* pathname.startsWith(page)
StartsWith(pathname, p) ==
  Len(pathname) >= Len(p) /\ SubSeq(pathname, 1, Len(p)) = p

\* the target the redirect effect pushes for user and pathname, NoPath when
\* no branch fires
RedirectTarget(user, pathname) ==
  IF user = NoUser /\ \E p \in authRequiredPages : StartsWith(pathname, p)
    THEN LoginPath
  ELSE IF user # NoUser /\ pathname \in authPages
    THEN GalleryPath
  ELSE IF user # NoUser /\ pathname = Root
    THEN GalleryPath
  ELSE IF /\ pathname \notin publicPages
          /\ ~\E p \in authRequiredPages : StartsWith(pathname, p)
          /\ pathname \notin authPages
    THEN (IF user # NoUser THEN GalleryPath ELSE Root)
  ELSE NoPath

\* AuthProvider mounted on some page: user null, loading true, getSession on
\* its way; session is what supabase.auth holds
InitAuth ==
  /\ ratings = {} /\ followers = {} /\ comments = {} /\ likes = {}
  /\ notifications = {}
  /\ photos = [p \in Photos |->
                 [user_id |-> "u1", rating |-> 0, votes_count |-> 0,
                  likes_count |-> 0, comments_count |-> 0, created_at |-> 0]]
  /\ profiles = [u \in Users |-> [followers_count |-> 0, following_count |-> 0]]
  /\ call = [s \in Sessions |-> IdleCall]
  /\ nextId = 1 /\ ncalls = 0 /\ latest = <<>>
  /\ files = Photos
  /\ page = IdlePage
  /\ gallery = IdleGallery
  /\ card = IdleCard
  /\ feed = IdleFeed
  /\ popover = IdlePopover
  /\ \E path \in Pathnames, session \in {NoUser, PageUser} :
       auth = [mounted |-> TRUE, user |-> NoUser, loading |-> TRUE,
               pathname |-> path, session |-> session, getUser |-> "fetch",
               dirty |-> TRUE, push |-> NoPath, redirects |-> 0,
               from |-> NoPath]

authFrame == <<storeVars, photos, files, call, nextId, ncalls, page,
               gallery, card, feed, popover>>

\* getUser after getSession: setUser(session?.user || null); setLoading(false).
\* The effect runs again when user or loading changed; a user object for the
\* same user may or may not be the same object as the one held
getUser_resolve(rerender) ==
  LET changed == auth.user # auth.session \/ auth.loading
  IN /\ auth.mounted /\ auth.getUser = "fetch"
     /\ rerender => auth.session # NoUser
     /\ auth' = [auth EXCEPT !.getUser = "done", !.user = auth.session,
                             !.loading = FALSE,
                             !.dirty = (auth.dirty \/ changed \/ rerender),
                             !.redirects = 0]
     /\ UNCHANGED authFrame

\* the onAuthStateChange listener after a sign-in or sign-out
onAuthStateChange(session) ==
  /\ auth.mounted /\ session # auth.session
  /\ auth' = [auth EXCEPT !.session = session, !.user = session,
                          !.loading = FALSE, !.dirty = TRUE,
                          !.redirects = 0]
  /\ UNCHANGED authFrame

\* the redirect effect without its loading test
redirectEffect_NoLoadingTest ==
  LET target == RedirectTarget(auth.user, auth.pathname)
  IN /\ auth.mounted /\ auth.dirty
     /\ auth' = IF target = NoPath
                  THEN [auth EXCEPT !.dirty = FALSE]
                  ELSE [auth EXCEPT !.dirty = FALSE, !.push = target,
                                    !.redirects = auth.redirects + 1]
     /\ UNCHANGED authFrame

\* the redirect effect, run after a render in which user, loading or
\* pathname changed: if (loading) return; else router.push(target)
redirectEffect ==
  LET target == RedirectTarget(auth.user, auth.pathname)
  IN /\ auth.mounted /\ auth.dirty
     /\ auth' = IF auth.loading \/ target = NoPath
                  THEN [auth EXCEPT !.dirty = FALSE]
                  ELSE [auth EXCEPT !.dirty = FALSE, !.push = target,
                                    !.redirects = auth.redirects + 1]
     /\ UNCHANGED authFrame

\* the navigation of router.push completes: usePathname() gives the new path
routerPush_complete ==
  /\ auth.mounted /\ auth.push # NoPath
  /\ auth' = [auth EXCEPT !.pathname = auth.push, !.push = NoPath,
                          !.dirty = (auth.dirty \/ auth.push # auth.pathname),
                          !.from = auth.pathname]
  /\ UNCHANGED authFrame

\* the visitor follows a link or types an address
navigate(path) ==
  /\ auth.mounted /\ auth.push = NoPath /\ path # auth.pathname
  /\ auth' = [auth EXCEPT !.pathname = path, !.dirty = TRUE,
                          !.redirects = 0, !.from = auth.pathname]
  /\ UNCHANGED authFrame

NextAuth ==
  \/ \E rerender \in BOOLEAN : getUser_resolve(rerender)
  \/ \E session \in {NoUser, PageUser} : onAuthStateChange(session)
  \/ redirectEffect
  \/ routerPush_complete
  \/ \E path \in Pathnames : navigate(path)

\* ------------------------------------------------------------ GalleryPage
\* the ids of a list of entries
Ids(list) == [i \in DOMAIN list |-> list[i].id]

\* what a request of loadPhotos can come back with
Outcomes == {"ok", "throws"}

\* the requests the page can have in flight at once
Slots == 1..(MaxCalls + 2)

NoRequest == [stage |-> "none"]

\* loadPhotos(pageNum, reset) up to its await, with the sortBy of the closure
\* it was created in
NewRequest(sortBy, pageNum, reset) ==
  [sortBy |-> sortBy, pageNum |-> pageNum, reset |-> reset, stage |-> "sent",
   newPhotos |-> <<>>, moreAvailable |-> FALSE, outcome |-> "ok"]

FreeSlot == CHOOSE k \in Slots :
              /\ feed.requests[k] = NoRequest
              /\ \A j \in Slots : j < k => feed.requests[j] # NoRequest

\* GalleryPage after mounting: the effect has called loadPhotos(1, true), the
\* store holds two photos that 'recent' and 'top-rated' order differently
InitFeed ==
  /\ ratings = {} /\ followers = {} /\ comments = {} /\ likes = {}
  /\ notifications = {}
  /\ photos = [p \in FeedPhotos |->
                 [user_id |-> "u1",
                  rating |-> IF p = "p1" THEN 9 ELSE 7,
                  votes_count |-> 1, likes_count |-> 0,
                  comments_count |-> 0,
                  created_at |-> IF p = "p1" THEN 0 ELSE 1]]
  /\ profiles = [u \in Users |-> [followers_count |-> 0, following_count |-> 0]]
  /\ call = [s \in Sessions |-> IdleCall]
  /\ nextId = 1 /\ ncalls = 0 /\ latest = <<>>
  /\ files = FeedPhotos
  /\ page = IdlePage
  /\ gallery = IdleGallery
  /\ card = IdleCard
  /\ auth = IdleAuth
  /\ popover = IdlePopover
  /\ feed = [mounted |-> TRUE, photos |-> <<>>, loading |-> TRUE,
             hasMore |-> TRUE, page |-> 1, sortBy |-> "recent",
             requests |-> [k \in Slots |->
                             IF k = 1 THEN NewRequest("recent", 1, TRUE)
                             ELSE NoRequest],
             effect |-> FALSE, changed |-> FALSE, failed |-> FALSE]

feedFrame == <<storeVars, photos, files, call, nextId, page,
               gallery, card, auth, popover>>

\* handleSortChange(value): setSortBy(value); setPage(1); loadPhotos(1, true)
\* with the loadPhotos of the render the tab was rendered in; the new sortBy
\* makes a new loadPhotos, which the effect will call
handleSortChange(value) ==
  /\ feed.mounted /\ ~feed.effect /\ value # feed.sortBy
  /\ ncalls < MaxCalls
  /\ feed' = [feed EXCEPT
                !.sortBy = value, !.page = 1, !.loading = TRUE,
                !.requests[FreeSlot] = NewRequest(feed.sortBy, 1, TRUE),
                !.effect = TRUE, !.changed = TRUE]
  /\ ncalls' = ncalls + 1
  /\ UNCHANGED feedFrame

\* useEffect(() => { loadPhotos(1, true) }, [loadPhotos])
loadPhotos_effect ==
  /\ feed.mounted /\ feed.effect
  /\ \E k \in Slots : feed.requests[k] = NoRequest
  /\ feed' = [feed EXCEPT
                !.effect = FALSE, !.loading = TRUE,
                !.requests[FreeSlot] = NewRequest(feed.sortBy, 1, TRUE)]
  /\ UNCHANGED <<feedFrame, ncalls>>

\* loadMorePhotos: if (!loading && hasMore) { setPage(prev => prev + 1);
\* loadPhotos(page + 1) }
loadMorePhotos_feed ==
  /\ feed.mounted /\ ~feed.effect
  /\ ~feed.loading /\ feed.hasMore
  /\ ncalls < MaxCalls
  /\ feed' = [feed EXCEPT
                !.page = feed.page + 1, !.loading = TRUE,
                !.requests[FreeSlot] =
                   NewRequest(feed.sortBy, feed.page + 1, FALSE)]
  /\ ncalls' = ncalls + 1
  /\ UNCHANGED feedFrame

\* the request of getAllPhotos(sortBy, pageNum) reaches the store
loadPhotos_fetch(k, outcome) ==
  LET r == feed.requests[k]
      result == getAllPhotos(r.sortBy, r.pageNum, FALSE)
  IN /\ feed.mounted /\ r.stage = "sent"
     /\ feed' = [feed EXCEPT
                   !.requests[k] =
                      [r EXCEPT !.stage = "back", !.outcome = outcome,
                                !.newPhotos = result,
                                !.moreAvailable = HasMore(result)]]
     /\ UNCHANGED <<feedFrame, ncalls>>

\* loadPhotos after its await: setPhotos (replace on reset, else append),
\* setHasMore; the catch only logs; finally setLoading(false)
loadPhotos_apply(k) ==
  LET r == feed.requests[k]
  IN /\ feed.mounted /\ r.stage = "back"
     /\ feed' =
          IF r.outcome = "throws"
            THEN [feed EXCEPT !.requests[k] = NoRequest,
                              !.loading = FALSE, !.failed = TRUE]
            ELSE [feed EXCEPT
                    !.requests[k] = NoRequest,
                    !.loading = FALSE,
                    !.photos = IF r.reset THEN r.newPhotos
                               ELSE feed.photos \o r.newPhotos,
                    !.hasMore = r.moreAvailable]
     /\ UNCHANGED <<feedFrame, ncalls>>

NextFeed ==
  \/ \E value \in SortOrders : handleSortChange(value)
  \/ loadPhotos_effect
  \/ loadMorePhotos_feed
  \/ \E k \in Slots, outcome \in Outcomes : loadPhotos_fetch(k, outcome)
  \/ \E k \in Slots : loadPhotos_apply(k)

\* --------------------------------------------------- NotificationsPopover
\* the user of useAuth()
PopoverUser == "u1"

\* the calls the popover can be awaiting at once
FreePending == CHOOSE k \in Slots :
                 /\ popover.pending[k] = NoRequest
                 /\ \A j \in Slots : j < k => popover.pending[j] # NoRequest

\* what each handler holds across its await
NewPending(kind, id) ==
  [stage |-> "sent", kind |-> kind, id |-> id, result |-> {}]

\* userNotifications.filter(n => !n.is_read).length
UnreadLength(list) == Cardinality({n \in list : ~n.is_read})

\* getUserNotifications(userId): the rows with user_id = userId, [] on an error
getUserNotifications(u, fail) ==
  IF fail THEN {}
  ELSE {[id |-> n.id, is_read |-> n.is_read] :
          n \in {m \in notifications : m.user_id = u}}

\* NotificationsPopover after mounting for a user with two unread
\* notifications: closed, the list empty, unreadCount 0
InitPopover ==
  /\ ratings = {} /\ followers = {} /\ comments = {} /\ likes = {}
  /\ notifications = {[id |-> i, user_id |-> PopoverUser, sender_id |-> "u2",
                       type |-> "like", is_read |-> FALSE] : i \in 1..2}
  /\ photos = [p \in Photos |->
                 [user_id |-> "u1", rating |-> 0, votes_count |-> 0,
                  likes_count |-> 0, comments_count |-> 0, created_at |-> 0]]
  /\ profiles = [u \in Users |-> [followers_count |-> 0, following_count |-> 0]]
  /\ call = [s \in Sessions |-> IdleCall]
  /\ nextId = 3 /\ ncalls = 0 /\ latest = <<>>
  /\ files = Photos
  /\ page = IdlePage
  /\ gallery = IdleGallery
  /\ card = IdleCard
  /\ auth = IdleAuth
  /\ feed = IdleFeed
  /\ popover = [mounted |-> TRUE, notifications |-> {}, unreadCount |-> 0,
                open |-> FALSE, loading |-> FALSE,
                pending |-> [k \in Slots |-> NoRequest]]

popoverFrame == <<ratings, followers, comments, profiles, latest, likes,
                  photos, files, call, nextId, page,
                  gallery, card, auth, feed>>

\* <Popover open={open} onOpenChange={setOpen}>; the effect on [user, open]
\* calls loadNotifications, which returns at once unless open
setOpen(value) ==
  /\ popover.mounted /\ popover.open # value
  /\ \E k \in Slots : popover.pending[k] = NoRequest
  /\ popover' =
       IF value
         THEN [popover EXCEPT !.open = TRUE, !.loading = TRUE,
                              !.pending[FreePending] = NewPending("load", 0)]
         ELSE [popover EXCEPT !.open = FALSE]
  /\ UNCHANGED <<popoverFrame, notifications, ncalls>>

\* setInterval(loadNotifications, 30000) while the popover is open
loadNotifications_interval ==
  /\ popover.mounted /\ popover.open
  /\ ncalls < MaxCalls
  /\ \E k \in Slots : popover.pending[k] = NoRequest
  /\ popover' = [popover EXCEPT
                   !.loading = TRUE,
                   !.pending[FreePending] = NewPending("load", 0)]
  /\ ncalls' = ncalls + 1
  /\ UNCHANGED <<popoverFrame, notifications>>

\* await getUserNotifications(user.id)
loadNotifications_fetch(k, fail) ==
  LET r == popover.pending[k]
  IN /\ popover.mounted /\ r.stage = "sent" /\ r.kind = "load"
     /\ popover' = [popover EXCEPT
                      !.pending[k] =
                         [r EXCEPT !.stage = "back",
                                   !.result =
                                      getUserNotifications(PopoverUser, fail)]]
     /\ UNCHANGED <<popoverFrame, notifications, ncalls>>

\* setNotifications(userNotifications); setUnreadCount(... .length)
loadNotifications_apply(k) ==
  LET r == popover.pending[k]
  IN /\ popover.mounted /\ r.stage = "back" /\ r.kind = "load"
     /\ popover' = [popover EXCEPT
                      !.pending[k] = NoRequest,
                      !.notifications = r.result,
                      !.unreadCount = UnreadLength(r.result),
                      !.loading = FALSE]
     /\ UNCHANGED <<popoverFrame, notifications, ncalls>>

\* handleNotificationClick(notification) up to its await: the entry is the
\* one of the render the row was clicked in
handleNotificationClick_call(id) ==
  /\ popover.mounted /\ popover.open
  /\ [id |-> id, is_read |-> FALSE] \in popover.notifications
  /\ ncalls < MaxCalls
  /\ \E k \in Slots : popover.pending[k] = NoRequest
  /\ popover' = [popover EXCEPT
                   !.pending[FreePending] = NewPending("click", id)]
  /\ ncalls' = ncalls + 1
  /\ UNCHANGED <<popoverFrame, notifications>>

\* await markNotificationAsRead(notification.id); the result is not read
handleNotificationClick_update(k, fail) ==
  LET r == popover.pending[k]
  IN /\ popover.mounted /\ r.stage = "sent" /\ r.kind = "click"
     /\ notifications' = IF fail THEN notifications
                         ELSE MarkRead(notifications, r.id)
     /\ popover' = [popover EXCEPT !.pending[k] = [r EXCEPT !.stage = "back"]]
     /\ UNCHANGED <<popoverFrame, ncalls>>

\* setNotifications(prev => prev.map(...)); setUnreadCount(prev =>
\* Math.max(0, prev - 1))
handleNotificationClick_resume(k) ==
  LET r == popover.pending[k]
  IN /\ popover.mounted /\ r.stage = "back" /\ r.kind = "click"
     /\ popover' = [popover EXCEPT
                      !.pending[k] = NoRequest,
                      !.notifications =
                         {IF n.id = r.id THEN [n EXCEPT !.is_read = TRUE]
                          ELSE n : n \in popover.notifications},
                      !.unreadCount =
                         IF popover.unreadCount - 1 > 0
                           THEN popover.unreadCount - 1 ELSE 0]
     /\ UNCHANGED <<popoverFrame, notifications, ncalls>>

\* handleClose up to its await; with nothing unread only setOpen(false)
handleClose_call ==
  /\ popover.mounted /\ popover.open
  /\ IF popover.unreadCount > 0
       THEN /\ ncalls < MaxCalls
            /\ \E k \in Slots : popover.pending[k] = NoRequest
            /\ popover' = [popover EXCEPT
                             !.pending[FreePending] = NewPending("close", 0)]
            /\ ncalls' = ncalls + 1
       ELSE /\ popover' = [popover EXCEPT !.open = FALSE]
            /\ UNCHANGED ncalls
  /\ UNCHANGED <<popoverFrame, notifications>>

\* await markAllNotificationsAsRead(user.id); the result is not read
handleClose_update(k, fail) ==
  LET r == popover.pending[k]
  IN /\ popover.mounted /\ r.stage = "sent" /\ r.kind = "close"
     /\ notifications' = IF fail THEN notifications
                         ELSE MarkAllRead(notifications, PopoverUser)
     /\ popover' = [popover EXCEPT !.pending[k] = [r EXCEPT !.stage = "back"]]
     /\ UNCHANGED <<popoverFrame, ncalls>>

\* setNotifications(all read); setUnreadCount(0); setOpen(false)
handleClose_resume(k) ==
  LET r == popover.pending[k]
  IN /\ popover.mounted /\ r.stage = "back" /\ r.kind = "close"
     /\ popover' = [popover EXCEPT
                      !.pending[k] = NoRequest,
                      !.notifications =
                         {[n EXCEPT !.is_read = TRUE] :
                            n \in popover.notifications},
                      !.unreadCount = 0,
                      !.open = FALSE]
     /\ UNCHANGED <<popoverFrame, notifications, ncalls>>

NextPopover ==
  \/ \E value \in BOOLEAN : setOpen(value)
  \/ loadNotifications_interval
  \/ \E k \in Slots, fail \in BOOLEAN : loadNotifications_fetch(k, fail)
  \/ \E k \in Slots : loadNotifications_apply(k)
  \/ \E id \in 1..2 : handleNotificationClick_call(id)
  \/ \E k \in Slots, fail \in BOOLEAN : handleNotificationClick_update(k, fail)
  \/ \E k \in Slots : handleNotificationClick_resume(k)
  \/ handleClose_call
  \/ \E k \in Slots, fail \in BOOLEAN : handleClose_update(k, fail)
  \/ \E k \in Slots : handleClose_resume(k)

\* ---------------------------------------------------------- updateProfile
\* type Profile
ProfileFields == {"id", "username", "full_name", "bio", "avatar_url",
                  "followers_count", "following_count", "created_at",
                  "updated_at"}

\* the fields updateProfile copies from updates
CopiedFields == {"username", "full_name", "bio", "avatar_url"}

\* a value a caller can pass for a field, different from the stored one
PassedValue(f) ==
  IF f \in CopiedFields THEN "new"
  ELSE IF f = "id" THEN "u0"
  ELSE 9

\* updates: Partial<Profile>; it names some of the copied fields and either
\* none or all of the others
Updates ==
  {[f \in D |-> PassedValue(f)] :
     D \in {C \cup E : C \in SUBSET CopiedFields,
                       E \in {{}, ProfileFields \ CopiedFields}}}

\* new Date().toISOString()
Now == ncalls + 1

\* fieldsToUpdate taking everything updates holds
FieldsToUpdate_AllOfUpdates(updates, now) ==
  [f \in DOMAIN updates \cup {"updated_at"} |->
     IF f = "updated_at" THEN now ELSE updates[f]]

\* fieldsToUpdate: the copied fields that updates defines, and updated_at
FieldsToUpdate(updates, now) ==
  [f \in (DOMAIN updates \cap CopiedFields) \cup {"updated_at"} |->
     IF f = "updated_at" THEN now ELSE updates[f]]

\* update(fieldsToUpdate).eq('id', userId)
UpdateProfiles(rows, userId, fields) ==
  [u \in DOMAIN rows |->
     IF rows[u].id = userId
       THEN [f \in DOMAIN rows[u] |->
               IF f \in DOMAIN fields THEN fields[f] ELSE rows[u][f]]
       ELSE rows[u]]

\* the profiles table with every column of Profile
InitProfile ==
  /\ ratings = {} /\ followers = {} /\ comments = {} /\ likes = {}
  /\ notifications = {}
  /\ photos = [p \in Photos |->
                 [user_id |-> "u1", rating |-> 0, votes_count |-> 0,
                  likes_count |-> 0, comments_count |-> 0, created_at |-> 0]]
  /\ profiles = [u \in Users |->
                   [id |-> u, username |-> "old", full_name |-> "old",
                    bio |-> "old", avatar_url |-> "old",
                    followers_count |-> 0, following_count |-> 0,
                    created_at |-> 0, updated_at |-> 0]]
  /\ call = [s \in Sessions |-> IdleCall]
  /\ nextId = 1 /\ ncalls = 0 /\ latest = <<>>
  /\ files = Photos
  /\ page = IdlePage
  /\ gallery = IdleGallery
  /\ card = IdleCard
  /\ auth = IdleAuth
  /\ feed = IdleFeed
  /\ popover = IdlePopover

\* the synchronous prefix: if (!userId) throw; build fieldsToUpdate.
\* existing keeps the names of the fields updates held
updateProfile_call(s, userId, updates) ==
  /\ CanInvoke(s)
  /\ LET c == [NewCall(s, "updateProfile", "update") EXCEPT
                 !.uid = userId, !.existing = DOMAIN updates,
                 !.value = FieldsToUpdate(updates, Now)]
     IN call' = [call EXCEPT ![s] =
                   IF userId = "" THEN ReturnFailure(c, "No userId provided")
                   ELSE c]
  /\ ncalls' = ncalls + 1
  /\ UNCHANGED <<likes, notifications, files, page, uiVars, ratings, followers,
                 comments, photos, profiles, nextId, latest>>

\* update(fieldsToUpdate).eq('id', userId).select(); if (error) throw
updateProfile_update(s, fail) ==
  LET c == call[s]
  IN /\ c.op = "updateProfile" /\ c.pc = "update"
     /\ IF fail
          THEN /\ call' = [call EXCEPT ![s] = StoreFailure(c)]
               /\ UNCHANGED profiles
          ELSE /\ profiles' = UpdateProfiles(profiles, c.uid, c.value)
               /\ call' = [call EXCEPT ![s] = ReturnSuccess(c)]
     /\ UNCHANGED <<likes, notifications, files, page, uiVars, ratings,
                    followers, comments, photos, nextId, ncalls, latest>>

updateProfile(s) ==
  \/ \E userId \in Users \cup {""}, updates \in Updates :
       updateProfile_call(s, userId, updates)
  \/ \E fail \in BOOLEAN : updateProfile_update(s, fail)

\* the session of the profile editor
ProfileSession == "s1"

NextProfile == updateProfile(ProfileSession)

\* ------------------------------------------------------------------ Next
Next ==
  \E s \in Sessions :
    \/ ratePhoto(s)
    \/ followUser(s)
    \/ unfollowUser(s)
    \/ addComment(s)
    \/ deleteComment(s)

\* ================================================================ claims
InFlight(s, op) == call[s].op = op /\ call[s].pc \notin {"idle", "done"}
Completed(s, op) == call[s].op = op /\ call[s].pc = "done"

Raters(ph) == {k \in DOMAIN latest : k[2] = ph}
Edges(a, b) == {e \in followers : e.follower_id = a /\ e.followed_id = b}
IsBlank(t) == \A i \in 1..Len(t) : t[i] \in Whitespace

\* C1: once no ratePhoto call is in flight, every photo's votes_count is the
\* number of distinct users who have rated it and its rating is the mean of
\* the latest value each of them submitted.
C1_RatingIsMeanOfLatest ==
  (\A s \in Sessions : ~InFlight(s, "ratePhoto")) =>
    \A ph \in DOMAIN photos :
      /\ photos[ph].votes_count = Cardinality(Raters(ph))
      /\ photos[ph].rating * Cardinality(Raters(ph)) = SumOver(latest, Raters(ph))

\* C2: the ratings table never holds two rows for one (user_id, photo_id).
C2_OneRatingPerUserPhoto ==
  \A r1 \in ratings, r2 \in ratings :
    (r1.user_id = r2.user_id /\ r1.photo_id = r2.photo_id) => r1 = r2

\* C3: a ratePhoto call whose value is outside 1..10 fails, and every stored
\* rating value is in 1..10.
C3_InvalidRatingRejected ==
  /\ \A r \in ratings : r.rating \in 1..10
  /\ \A s \in Sessions :
       (Completed(s, "ratePhoto") /\ call[s].rating \notin 1..10)
         => ~call[s].success

\* C4: every profile's followers_count is the number of follow edges pointing
\* at it and its following_count the number of follow edges leaving it.
C4_CountersMatchEdges ==
  \A u \in Users :
    /\ profiles[u].followers_count =
         Cardinality({e \in followers : e.followed_id = u})
    /\ profiles[u].following_count =
         Cardinality({e \in followers : e.follower_id = u})

\* C5: after followUser(a, b) was called twice in a row on a fresh store
\* (a # b, no store failure, no other call), there is exactly one edge (a, b),
\* both calls returned success, and b.followers_count and a.following_count
\* are one higher than before the first call (they were 0).
C5_FollowTwiceCountsOnce ==
  \A s \in Sessions :
    LET c == call[s] IN
    ( /\ ncalls = 2
      /\ Completed(s, "followUser") /\ c.uid # c.tgt /\ ~c.failed
      /\ c.prev.op = "followUser" /\ c.prev.uid = c.uid /\ c.prev.tgt = c.tgt
      /\ ~c.prev.failed )
    => /\ Cardinality(Edges(c.uid, c.tgt)) = 1
       /\ c.success /\ c.prev.success
       /\ profiles[c.tgt].followers_count = 1
       /\ profiles[c.uid].following_count = 1

\* both sessions have completed a followUser(a, b) for the same pair a # b,
\* these are the only calls made, and no store request failed
BothFollowed(a, b) ==
  /\ ncalls = 2 /\ a # b
  /\ \A s \in Sessions :
       /\ Completed(s, "followUser") /\ call[s].uid = a /\ call[s].tgt = b
       /\ ~call[s].failed

\* C6: after two followUser(a, b) calls of two sessions, however their store
\* requests interleave, there is exactly one edge (a, b) and the counters
\* have been incremented once.
C6_ConcurrentFollowOnce ==
  \A a \in Users, b \in Users :
    BothFollowed(a, b) =>
      /\ Cardinality(Edges(a, b)) = 1
      /\ profiles[b].followers_count = 1
      /\ profiles[a].following_count = 1

\* the edge half of C6 alone: two overlapping calls leave one edge
C6_EdgePartOnly ==
  \A a \in Users, b \in Users :
    BothFollowed(a, b) => Cardinality(Edges(a, b)) = 1

\* C7: followUser(x, x) returns success=false with the self-follow error in
\* the step that invokes it, changes neither the followers table nor a
\* profile, and no follow edge ever has follower_id = followed_id.
C7_SelfFollowRejected ==
  [][ /\ \A s \in Sessions :
           ( /\ call'[s] # call[s]
             /\ call'[s].op = "followUser" /\ call'[s].uid = call'[s].tgt )
           => /\ call'[s].pc = "done"
              /\ ~call'[s].success
              /\ call'[s].error = "cannot_follow_self"
              /\ followers' = followers
              /\ profiles' = profiles
      /\ \A e \in followers' : e.follower_id # e.followed_id ]_vars

C7_Witness ==
  \E s \in Sessions :
    /\ Completed(s, "followUser") /\ call[s].uid = call[s].tgt
    /\ ~call[s].success /\ call[s].error = "cannot_follow_self"

\* C8: the delete request of unfollowUser(a, b), when no edge (a, b) exists,
\* leaves the followers table and all profiles unchanged, and unless the
\* store request itself failed the call returns success with no error.
C8_UnfollowAbsentIsNoOp ==
  [][ \A s \in Sessions :
        ( /\ InFlight(s, "unfollowUser") /\ call'[s].pc = "done"
          /\ Edges(call[s].uid, call[s].tgt) = {} )
        => /\ followers' = followers
           /\ profiles' = profiles
           /\ ~call'[s].failed =>
                (call'[s].success /\ call'[s].error = "none") ]_vars

C8_Witness ==
  \E s \in Sessions :
    /\ Completed(s, "unfollowUser") /\ call[s].success
    /\ call[s].affected = {}
    /\ followers # {}

\* C9: addComment with a text that is empty or only whitespace returns
\* success=false with the empty-comment error in the step that invokes it and
\* leaves the comments table and the photos (comments_count) unchanged.
C9_BlankCommentRejected ==
  [][ \A s \in Sessions :
        ( /\ call'[s] # call[s]
          /\ call'[s].op = "addComment" /\ IsBlank(call'[s].content) )
        => /\ call'[s].pc = "done"
           /\ ~call'[s].success
           /\ call'[s].error = "comment_empty"
           /\ comments' = comments
           /\ photos' = photos ]_vars

C9_Witness ==
  \E s \in Sessions :
    /\ Completed(s, "addComment")
    /\ call[s].content # <<>> /\ IsBlank(call[s].content)
    /\ ~call[s].success /\ call[s].error = "comment_empty"

\* C10: no step of deleteComment(commentId, requesterId) removes or changes a
\* comment whose user_id differs from requesterId or changes a photo; such a
\* call never returns success, and unless the store request itself failed it
\* returns the permission error.
C10_OnlyAuthorDeletes ==
  [][ \A s \in Sessions :
        InFlight(s, "deleteComment") /\ call'[s] # call[s] =>
          \A r \in comments :
            (r.id = call[s].cid /\ r.user_id # call[s].uid) =>
              /\ r \in comments'
              /\ photos' = photos
              /\ call'[s].pc = "done"
              /\ ~call'[s].success
              /\ ~call'[s].failed => call'[s].error = "no_permission" ]_vars

C10_Witness ==
  \E s \in Sessions :
    /\ Completed(s, "deleteComment") /\ call[s].error = "no_permission"
    /\ \E r \in comments : r.id = call[s].cid /\ r.user_id # call[s].uid

PhotoRows(ph) ==
  <<{r \in comments : r.photo_id = ph}, {r \in ratings : r.photo_id = ph},
    {r \in likes : r.photo_id = ph}>>

\* C11: no step of deletePhoto(photoId, userId) with userId different from
\* the photo's user_id changes the photo row, a comment, a rating, a like or
\* the stored file; the call ends at once with success=false (with the
\* permission error unless the store request itself failed); and whenever a
\* photo row is removed, it is by a deletePhoto of the photo's owner.
C11_OnlyOwnerDeletesPhoto ==
  [][ /\ \A s \in Sessions :
           ( /\ InFlight(s, "deletePhoto") /\ call'[s] # call[s]
             /\ call[s].tgt \in DOMAIN photos
             /\ photos[call[s].tgt].user_id # call[s].uid )
           => /\ UNCHANGED <<photos, comments, ratings, likes, files>>
              /\ call'[s].pc = "done"
              /\ ~call'[s].success
              /\ ~call'[s].failed => call'[s].error = "not_owner"
      /\ \A ph \in DOMAIN photos \ DOMAIN photos' :
           \E s \in Sessions :
             /\ InFlight(s, "deletePhoto") /\ call[s].tgt = ph
             /\ call[s].uid = photos[ph].user_id ]_vars

C11_Witness ==
  \E s \in Sessions :
    /\ Completed(s, "deletePhoto") /\ call[s].error = "not_owner"
    /\ call[s].tgt \in DOMAIN photos
    /\ photos[call[s].tgt].user_id # call[s].uid
    /\ PhotoRows(call[s].tgt) # <<{}, {}, {}>>

\* C12: when deletePhoto(photoId, owner) returns success, no comment, rating
\* or like row references photoId, however its steps interleave with other
\* sessions' calls.
C12_NoOrphanRows ==
  [][ \A s \in Sessions :
        ( /\ InFlight(s, "deletePhoto") /\ call'[s].pc = "done"
          /\ call'[s].success )
        => /\ \A r \in comments' : r.photo_id # call[s].tgt
           /\ \A r \in ratings' : r.photo_id # call[s].tgt
           /\ \A r \in likes' : r.photo_id # call[s].tgt ]_vars

\* the same at the step that removes the photo row: the rows left behind were
\* inserted while the photo still existed
C12_AtRowRemoval ==
  [][ \A ph \in DOMAIN photos \ DOMAIN photos' :
        /\ \A r \in comments' : r.photo_id # ph
        /\ \A r \in ratings' : r.photo_id # ph
        /\ \A r \in likes' : r.photo_id # ph ]_vars

\* C13: the likes table never holds two rows for one (user_id, photo_id);
\* a likePhoto that finds the like returns success and inserts nothing; an
\* unlikePhoto that finds no like returns success and changes nothing.
C13_LikeIdempotent ==
  /\ \A r1 \in likes, r2 \in likes :
       (r1.user_id = r2.user_id /\ r1.photo_id = r2.photo_id) => r1 = r2
  /\ \A s \in Sessions :
       (Completed(s, "likePhoto") /\ call[s].existing # {}) => call[s].success
  /\ \A s \in Sessions :
       (Completed(s, "unlikePhoto") /\ ~call[s].failed) => call[s].success

MutatingOps == {"ratePhoto", "followUser", "unfollowUser", "likePhoto",
                "unlikePhoto", "addComment"}

\* session s is running again, with identical inputs, the call it has just
\* completed and that was applied; no other call was made
IsRetry(s) ==
  LET c == call[s] IN
  /\ ncalls = 2
  /\ c.op \in MutatingOps /\ c.pc \notin {"idle", "done"}
  /\ c.prev.op = c.op /\ c.prev.uid = c.uid /\ c.prev.tgt = c.tgt
  /\ c.prev.rating = c.rating /\ c.prev.content = c.content
  /\ c.prev.success /\ ~c.prev.failed

\* C14: no step of a retried mutating call changes a table: the store after
\* the retry is the store after the first attempt (created_at aside).
C14_RetryChangesNothing ==
  [][ \A s \in Sessions :
        IsRetry(s) =>
          UNCHANGED <<ratings, followers, likes, comments, photos, profiles>>
    ]_vars

\* C19: getUserRating returns the stored value when a row for (userId,
\* photoId) exists at the time of the request, and null only when none does.
C19_UserRatingIsStoredValue ==
  \A s \in Sessions :
    Completed(s, "getUserRating") =>
      /\ call[s].value = {} => call[s].affected = {}
      /\ \A v \in call[s].value :
           \E r \in ratings : r.id \in call[s].affected /\ r.rating = v

\* C19 without a failed request: two rows for the pair are enough
C19_WithoutStoreFailure ==
  \A s \in Sessions :
    (Completed(s, "getUserRating") /\ ~call[s].failed) =>
      (call[s].value = {} => call[s].affected = {})

\* the photo operations: a photo's rows and its deletion
NextPhoto ==
  \E s \in Sessions :
    \/ ratePhoto(s)
    \/ \E u \in Users, ph \in Photos : addComment_call(s, u, ph, <<"a">>)
    \/ \E fail \in BOOLEAN : addComment_insert(s, fail)
    \/ likePhoto(s)
    \/ unlikePhoto(s)
    \/ getUserRating(s)
    \/ deletePhoto(s)

\* C15: createNotification with recipient = sender returns success in the
\* step that invokes it and inserts nothing, and no notification ever has
\* user_id = sender_id.
C15_NoSelfNotification ==
  [][ /\ \A s \in Sessions :
           ( /\ call'[s] # call[s]
             /\ call'[s].op = "createNotification"
             /\ call'[s].uid = call'[s].tgt )
           => /\ call'[s].pc = "done"
              /\ call'[s].success /\ call'[s].error = "none"
              /\ notifications' = notifications
      /\ \A n \in notifications' : n.user_id # n.sender_id ]_vars

C15_Witness ==
  \E s \in Sessions :
    /\ Completed(s, "createNotification") /\ call[s].uid = call[s].tgt
    /\ call[s].success

TriggeringOps == {"ratePhoto", "likePhoto", "addComment", "followUser"}

KindOf(op) ==
  CASE op = "ratePhoto" -> "rating"
    [] op = "likePhoto" -> "like"
    [] op = "addComment" -> "comment"
    [] OTHER -> "follow"

\* the user a successful call of a triggering operation is to notify
Recipient(c) ==
  IF c.op = "followUser" THEN {c.tgt}
  ELSE IF c.tgt \in DOMAIN photos THEN {photos[c.tgt].user_id}
  ELSE {}

\* C16: once a rate, like, comment or follow by X on a photo or profile of
\* another user Y has returned success, a notification of the matching kind
\* from X exists for Y; and no notification has user_id = sender_id.
C16_ActionNotifies ==
  /\ \A s \in Sessions :
       ( /\ call[s].op \in TriggeringOps /\ call[s].pc = "done"
         /\ call[s].success )
       => \A y \in Recipient(call[s]) \ {call[s].uid} :
            \E n \in notifications :
              /\ n.user_id = y /\ n.sender_id = call[s].uid
              /\ n.type = KindOf(call[s].op)
  /\ \A n \in notifications : n.user_id # n.sender_id

PrimaryTables == <<ratings, likes, comments, followers>>

\* C17: the step in which ratePhoto, likePhoto, addComment or followUser
\* writes its row ends the call with success; and no step of
\* createNotification, failing or not, changes a rating, like, comment or
\* follow row or another session's call.
C17_NotificationFailureIsolated ==
  [][ /\ \A s \in Sessions :
           ( /\ call[s].op \in TriggeringOps /\ call'[s] # call[s]
             /\ call[s].pc \notin {"idle", "done"}
             /\ PrimaryTables' # PrimaryTables )
           => /\ call'[s].pc = "done"
              /\ call'[s].success /\ call'[s].error = "none"
      /\ \A s \in Sessions :
           (InFlight(s, "createNotification") /\ call'[s] # call[s])
           => /\ PrimaryTables' = PrimaryTables
              /\ \A t \in Sessions \ {s} : call'[t] = call[t] ]_vars

C17_Witness ==
  \E s \in Sessions, t \in Sessions :
    /\ Completed(s, "followUser") /\ call[s].success
    /\ Edges(call[s].uid, call[s].tgt) # {}
    /\ Completed(t, "createNotification") /\ call[t].kind = "follow"
    /\ call[t].uid = call[s].tgt /\ call[t].tgt = call[s].uid
    /\ call[t].failed /\ ~call[t].success

NextNotif ==
  \E s \in Sessions :
    \/ ratePhoto(s)
    \/ \E u \in Users, ph \in Photos : addComment_call(s, u, ph, <<"a">>)
    \/ \E fail \in BOOLEAN : addComment_insert(s, fail)
    \/ likePhoto(s)
    \/ followUser(s)
    \/ createNotification(s)
    \/ markAllNotificationsAsRead(s)
    \/ markNotificationAsRead(s)

\* C20: when handleRating has shown an accepted rating, the page's votes_count
\* went up by one if the user had no stored rating and stayed as it was if
\* the user had one.
C20_VotesCountFollowsStore ==
  page.handle = "rated" =>
    /\ page.delta \in {0, 1}
    /\ page.delta = 1 <=> ~page.hadStored

\* C21: when ratePhoto reports success=false, handleRate leaves
\* userRatings[photoId] as it was immediately before the attempt (the
\* previous rating if there was one, absent if there was none)
C21_FailedRateRestoresRating ==
  [][ (gallery.handle = "waiting" /\ gallery'.handle = "reverted")
        => gallery'.userRatings[gallery.id] = gallery.before ]_vars

\* C22: the likes count shown on a gallery entry is never negative
C22_GalleryLikesNonNegative ==
  \A i \in DOMAIN gallery.photos : gallery.photos[i].likes_count >= 0


\* C23: getFollowers(id) returns exactly the profiles with a follow edge to
\* id and getFollowing(id) exactly the profiles id has an edge to, each of
\* them once
C23_FollowListsExact ==
  [][ \A s \in Sessions :
        /\ (call[s].op = "getFollowers" /\ call[s].pc = "fetch"
              /\ call'[s].pc = "done")
             => call'[s].value =
                  {[id |-> u, copies |-> 1] :
                     u \in {r.follower_id :
                              r \in {x \in followers :
                                       x.followed_id = call[s].tgt}}}
        /\ (call[s].op = "getFollowing" /\ call[s].pc = "fetch"
              /\ call'[s].pc = "done")
             => call'[s].value =
                  {[id |-> u, copies |-> 1] :
                     u \in {r.followed_id :
                              r \in {x \in followers :
                                       x.follower_id = call[s].tgt}}} ]_vars

\* C23 when no request fails: the list still repeats a profile that has
\* two follow rows
C23_WithoutStoreFailure ==
  \A s \in Sessions :
    (call[s].op \in {"getFollowers", "getFollowing"} /\ call[s].pc = "done"
       /\ ~call[s].failed)
      => \A e \in call[s].value : e.copies = 1

\* C24: after the user's rating is accepted, the aggregate rating PhotoCard
\* shows is a finite number and equals the mean of all ratings of the photo
\* with the user's rating applied
C24_CardShowsMean ==
  LET rows == {r \in ratings : r.photo_id = PagePhoto}
  IN (card.mounted /\ card.rate = "rated") =>
       /\ card.currentRating.den # 0
       /\ card.currentRating.num * Cardinality(rows)
            = SumRatings(rows) * card.currentRating.den

\* C24 for photos that already have votes: the number shown is finite, and
\* still not the mean after a first rating
C24_WithVotes ==
  LET rows == {r \in ratings : r.photo_id = PagePhoto}
  IN (card.mounted /\ card.rate = "rated" /\ card.votesCount > 0) =>
       card.currentRating.num * Cardinality(rows)
         = SumRatings(rows) * card.currentRating.den

\* C26: once handleLike has finished, isLiked says whether a like row of the
\* user for the photo exists and currentLikes moved only if the like rows
\* changed, given that isLiked matched the store at the click
C26_CardFollowsStore ==
  [][ (card.mounted /\ card.like = "waiting" /\ card'.like = "done"
         /\ card.matched)
        => /\ card'.isLiked =
                (\E r \in likes' :
                   r.user_id = PageUser /\ r.photo_id = PagePhoto)
           /\ (card'.currentLikes # card.likesBefore
                 => likes' # card.rowsBefore) ]_vars

\* C25: a deletePhoto that returns success=false has removed nothing: the
\* photo row and its comments, ratings and likes are as before the call
C25_DeletePhotoAllOrNothing ==
  \A s \in Sessions :
    (Completed(s, "deletePhoto") /\ ~call[s].success)
      => call[s].affected = {}

\* C27: the redirect effect pushes nothing while loading is true; once
\* loading is false it sends an unauthenticated visitor on a path starting
\* with /upload or /profile to /login and an authenticated user on /login,
\* /signup or / to /gallery; and with the auth state fixed, at most one
\* redirect fires from any starting path before the effect comes to rest
C27_RedirectsGuardAndSettle ==
  [][ auth.mounted =>
        /\ (auth.loading /\ auth'.loading) => auth'.push = auth.push
        /\ (auth.loading /\ auth.dirty /\ ~auth'.dirty)
             => auth'.push = auth.push
        /\ (~auth.loading /\ auth.dirty /\ ~auth'.dirty /\ auth.user = NoUser
              /\ \E p \in {UploadPath, ProfilePath} :
                   StartsWith(auth.pathname, p))
             => auth'.push = LoginPath
        /\ (~auth.loading /\ auth.dirty /\ ~auth'.dirty /\ auth.user # NoUser
              /\ auth.pathname \in {LoginPath, SignupPath, Root})
             => auth'.push = GalleryPath
        /\ auth'.redirects <= 1 ]_vars

\* the effect has redirected a visitor from a protected path to /login, the
\* navigation has completed and the effect has run again without firing
C27_Witness ==
  /\ auth.mounted /\ ~auth.loading /\ auth.user = NoUser
  /\ auth.pathname = LoginPath /\ auth.redirects = 1
  /\ StartsWith(auth.from, UploadPath) /\ auth.from # UploadPath
  /\ ~auth.dirty /\ auth.push = NoPath

\* a list that is the first pages of the photos in the given order
IsFirstPages(ids, sortBy) ==
  LET all == OrderDesc(DOMAIN photos, SortColumn(sortBy))
  IN /\ Len(ids) <= Len(all)
     /\ Len(ids) >= (IF Len(all) < PageSize THEN Len(all) ELSE PageSize)
     /\ ids = SubSeq(all, 1, Len(ids))

\* C28: once the sort order was changed and every photo request has
\* completed, the gallery page lists the first page (and the pages loaded
\* after it) of the selected sort order, whatever order the responses came in
C28_ListFollowsSort ==
  (/\ feed.mounted /\ feed.changed /\ ~feed.failed
   /\ \A k \in Slots : feed.requests[k] = NoRequest
   /\ ~feed.effect)
    => IsFirstPages(Ids(feed.photos), feed.sortBy)

\* C28, second half: a response to a request issued with another sortBy than
\* the selected one leaves the list alone
C28_StaleResponseIgnored ==
  [][ feed.mounted =>
        \A k \in Slots :
          (feed.requests[k].stage = "back" /\ feed'.requests[k] = NoRequest
             /\ feed.requests[k].sortBy # feed.sortBy)
            => feed'.photos = feed.photos ]_vars

\* C29: whenever no call of the notifications popover is awaited, unreadCount
\* is the number of unread entries of the local list, and it is never negative
C29_UnreadCountMatchesList ==
  popover.mounted =>
    /\ popover.unreadCount >= 0
    /\ (\A k \in Slots : popover.pending[k] = NoRequest)
         => popover.unreadCount = UnreadLength(popover.notifications)

\* C30: the store request of updateProfile changes, on the row whose id is
\* userId, only updated_at and those of username, full_name, bio and
\* avatar_url that updates held; id, followers_count, following_count and
\* created_at of that row and every other row stay as they were, also when
\* updates held values for them
C30_UpdateProfileFrame ==
  [][ \A s \in Sessions :
        (call[s].op = "updateProfile" /\ call[s].pc = "update"
           /\ call'[s].pc = "done")
          => \A u \in Users, f \in ProfileFields :
               profiles'[u][f] # profiles[u][f]
                 => /\ profiles[u].id = call[s].uid
                    /\ \/ f = "updated_at"
                       \/ f \in CopiedFields \cap call[s].existing ]_vars

\* a call whose updates held all nine fields has succeeded: the copied
\* fields are written, the counters, id and created_at are not
C30_Witness ==
  \E s \in Sessions :
    /\ Completed(s, "updateProfile") /\ call[s].success
    /\ call[s].existing = ProfileFields
    /\ profiles[call[s].uid].username = "new"
    /\ profiles[call[s].uid].updated_at > 0
    /\ profiles[call[s].uid].followers_count = 0
    /\ profiles[call[s].uid].id = call[s].uid

Spec == Init /\ [][Next]_vars
SpecProfile == InitProfile /\ [][NextProfile]_vars
SpecPopover == InitPopover /\ [][NextPopover]_vars
SpecFeed == InitFeed /\ [][NextFeed]_vars
SpecAuth == InitAuth /\ [][NextAuth]_vars
SpecCard == InitCard /\ [][NextCard]_vars
SpecFollow == Init /\ [][NextFollow]_vars
SpecGallery == InitGallery /\ [][NextGallery]_vars
SpecDetail == InitDetail /\ [][NextDetail]_vars
SpecNotif == Init /\ [][NextNotif]_vars
SpecPhoto == Init /\ [][NextPhoto]_vars
====
